---- MODULE Spec2Model ----
(***************************************************************************)
(* The manifest-driven Organizer of the knowledge-archive toolkit, in its  *)
(* two variants:                                                           *)
(*   "root"      = ARCHIVE-TOOLKIT.py            organize_archive          *)
(*   "directive" = directive/archive_toolkit.py  organize_archive          *)
(*                                                                         *)
(* Text is modelled at two levels.  A string is a sequence of tokens; a    *)
(* token taken from a manifest field or a staged file is one character,    *)
(* a token the program itself emits (a header key, a stage folder, today's *)
(* date) is the whole literal.  A file's text is the sequence of its lines *)
(* as text.split("\n") gives them, so "a\n" is << a, <<>> >>.              *)
(***************************************************************************)
EXTENDS Integers, Sequences, FiniteSets, TLC

VARIABLES
    variant,    \* which organize_archive is running: "root" or "directive"
    manifest,   \* rows = list(csv.DictReader(f))
    staging,    \* staged path -> text of the file, or NoFile
    staging0,   \* history: the staging tree when the run began
    adirs,      \* directories that exist under the archive root
    afiles,     \* archived file path -> text
    pc,         \* "idle", "running", "done", "aborted" (uncaught exception)
    i,          \* index of the manifest row being processed
    step,       \* position inside the loop body
    cur,        \* locals of the loop body for the current row
    log,        \* one entry per processed row: what was printed for it
                \* (an error line carries the exception, so it tells which call raised)
    run,        \* how many times organize_archive has been started
    log1,       \* history: the log of the first run, once a second one has started
    snap,       \* history: staging and archive as the first run left them
    cmd,        \* the command on the command line: "run", "validate", "index", "report"
    inputs,     \* which of "manifest", "archive" exist when the command starts
    exit_status,\* exit status of the process, -1 while it runs
    out,        \* what the command has printed so far, one word per message
    taxonomy,   \* taxonomy/domains.json and taxonomy/tags.json
    issues,     \* the issue list of the validation that ran last
    indexes,    \* the _indexes directory: whether it exists, and its files
    stats,      \* the counts the report printed last
    arg,        \* the arguments of the function called on its own
    result,     \* what that call returned
    procs,      \* dashboard: the child processes started, each running or ended
    status,     \* dashboard: the text of the status bar
    bundle      \* knowledge_bundle.json: whether it exists, and its entries

\* what a step of organize_archive's loop never touches
commands == <<cmd, inputs, exit_status, out, taxonomy, issues, indexes>>
extras == <<stats, arg, result, procs, status, bundle>>
others == <<run, log1, snap, commands, extras>>

vars == <<variant, manifest, staging, staging0, adirs, afiles, pc, i, step, cur, log, others>>

(***************************************************************************)
(* Bounds                                                                  *)
(***************************************************************************)
MaxRows == 2

(***************************************************************************)
(* Strings                                                                 *)
(***************************************************************************)
UpperChars == <<"A","B","C","D","E","F","G","H","I","J","K","L","M",
                "N","O","P","Q","R","S","T","U","V","W","X","Y","Z">>
LowerChars == <<"a","b","c","d","e","f","g","h","i","j","k","l","m",
                "n","o","p","q","r","s","t","u","v","w","x","y","z">>
Digits == {"0","1","2","3","4","5","6","7","8","9"}

\* str.lower() on one character
LowerChar(c) ==
    IF \E k \in 1..26 : UpperChars[k] = c
    THEN LowerChars[CHOOSE k \in 1..26 : UpperChars[k] = c]
    ELSE c

\* str.lower()
Lower(s) == [k \in 1..Len(s) |-> LowerChar(s[k])]

IsSpace(c) == c \in {" ", "\t"}

\* str.strip()
RECURSIVE LStrip(_)
LStrip(s) == IF s # <<>> /\ IsSpace(s[1]) THEN LStrip(Tail(s)) ELSE s

RECURSIVE RStrip(_)
RStrip(s) ==
    IF s # <<>> /\ IsSpace(s[Len(s)]) THEN RStrip(SubSeq(s, 1, Len(s) - 1)) ELSE s

Strip(s) == RStrip(LStrip(s))

\* str.replace(old, new): left to right, non-overlapping; old is not empty
RECURSIVE Replace(_, _, _)
Replace(s, old, new) ==
    IF Len(s) < Len(old) THEN s
    ELSE IF SubSeq(s, 1, Len(old)) = old
         THEN new \o Replace(SubSeq(s, Len(old) + 1, Len(s)), old, new)
         ELSE <<s[1]>> \o Replace(Tail(s), old, new)

\* str.startswith / str.endswith
StartsWith(s, p) == Len(s) >= Len(p) /\ SubSeq(s, 1, Len(p)) = p
EndsWith(s, p) == Len(s) >= Len(p) /\ SubSeq(s, Len(s) - Len(p) + 1, Len(s)) = p

\* str.split(sep) for a one-character separator: the pieces, empty ones included
RECURSIVE SplitAcc(_, _, _)
SplitAcc(s, sep, piece) ==
    IF s = <<>> THEN <<piece>>
    ELSE IF s[1] = sep THEN <<piece>> \o SplitAcc(Tail(s), sep, <<>>)
         ELSE SplitAcc(Tail(s), sep, Append(piece, s[1]))

Split(s, sep) == SplitAcc(s, sep, <<>>)

\* concatenation of a sequence of strings
RECURSIVE Concat(_)
Concat(ss) == IF ss = <<>> THEN <<>> ELSE Head(ss) \o Concat(Tail(ss))

\* [t.strip() for t in field.split(sep) if t.strip()]
SplitTags(field, sep) ==
    LET pieces   == Split(field, sep)
        stripped == [k \in 1..Len(pieces) |-> Strip(pieces[k])]
    IN  SelectSeq(stripped, LAMBDA t : t # <<>>)

\* json.dumps of one str: quotes and backslashes are escaped
JsonString(t) ==
    <<"\"">> \o
    Concat([k \in 1..Len(t) |->
              IF t[k] \in {"\"", "\\"} THEN <<"\\", t[k]>> ELSE <<t[k]>>]) \o
    <<"\"">>

\* json.dumps of a list of str: ["a", "b"]
RECURSIVE JsonItems(_)
JsonItems(ts) ==
    IF ts = <<>> THEN <<>>
    ELSE IF Len(ts) = 1 THEN JsonString(ts[1])
         ELSE JsonString(ts[1]) \o <<",", " ">> \o JsonItems(Tail(ts))

JsonDumps(ts) == <<"[">> \o JsonItems(ts) \o <<"]">>


(***************************************************************************)
(* Literals of the program                                                 *)
(***************************************************************************)
\* datetime.date.today().isoformat() / datetime.now().strftime('%Y-%m-%d')
Today == <<"<today>">>

Dashes == <<"-","-","-">>
DotMd == <<".","m","d">>

\* keys of stage_map
KeyExperientialData == <<"e","x","p","e","r","i","e","n","t","i","a","l","d","a","t","a">>
KeyAnalyticalSynthesis == <<"a","n","a","l","y","t","i","c","a","l","s","y","n","t","h","e","s","i","s">>
KeyFormalizedFramework == <<"f","o","r","m","a","l","i","z","e","d","f","r","a","m","e","w","o","r","k">>
KeyRaw == <<"r","a","w">>

\* values of stage_map: the three stage folders
ExperientialDataFolder == <<"experiential_data">>
AnalyticalSynthesisFolder == <<"analytical_synthesis">>
FormalizedFrameworksFolder == <<"formalized_frameworks">>
StageFolders == {ExperientialDataFolder, AnalyticalSynthesisFolder, FormalizedFrameworksFolder}

(***************************************************************************)
(* Pure steps of the loop body of organize_archive                         *)
(***************************************************************************)

\* root:      domain = row.get("suggested_domain", ...)
\* directive: domain = row['pattern_domain'].strip().lower().replace(" ", "-")
DomainOf(v, row) ==
    IF v = "root" THEN row.domain
    ELSE Replace(Lower(Strip(row.domain)), <<" ">>, <<"-">>)

\* the stage label written to the header
\* root: stage = row.get("maturation_stage", ...); directive: raw_stage = ....strip()
RawStage(v, row) == IF v = "root" THEN row.stage ELSE Strip(row.stage)

\* directive: clean_stage = raw_stage.lower().replace(" ", "").replace("-", "")
CleanStage(raw) == Replace(Replace(Lower(raw), <<" ">>, <<>>), <<"-">>, <<>>)

\* stage_map.get(key, "experiential_data")
StageMapGet(v, key) ==
    IF key = KeyExperientialData THEN ExperientialDataFolder
    ELSE IF key = KeyAnalyticalSynthesis THEN AnalyticalSynthesisFolder
    ELSE IF key = KeyFormalizedFramework THEN FormalizedFrameworksFolder
    ELSE IF v = "directive" /\ key = KeyRaw THEN ExperientialDataFolder
    ELSE ExperientialDataFolder

\* root looks the label up as given, directive looks up clean_stage
StageFolder(v, row) ==
    IF v = "root" THEN StageMapGet(v, row.stage)
    ELSE StageMapGet(v, CleanStage(RawStage(v, row)))

\* ARCHIVE_DIR / domain / stage_folder: pathlib drops an empty component
DestDir(domain, folder) == IF domain = <<>> THEN <<folder>> ELSE <<domain, folder>>

\* the directories mkdir(parents=True, exist_ok=True) makes sure exist
DirAndParents(dir) == {SubSeq(dir, 1, k) : k \in 1..Len(dir)}

SlugChars == {LowerChars[k] : k \in 1..26} \cup Digits \cup {"-"}

\* a slug that drops spaces instead of turning them into hyphens
SlugSpacesRemoved(filename) ==
    SelectSeq(Replace(Replace(Lower(filename), DotMd, <<>>), <<" ">>, <<>>),
              LAMBDA c : c \in SlugChars)

\* root: re.sub(r'[^a-z0-9-]', '', filename.lower().replace('.md', '').replace(' ', '-'))
Slug(filename) ==
    SelectSeq(Replace(Replace(Lower(filename), DotMd, <<>>), <<" ">>, <<"-">>),
              LAMBDA c : c \in SlugChars)

\* pathlib: PurePath(name).stem, for a name without separators
RECURSIVE LastDot(_)
LastDot(name) ==
    IF name = <<>> THEN 0
    ELSE IF name[Len(name)] = "." THEN Len(name)
         ELSE LastDot(SubSeq(name, 1, Len(name) - 1))

PathStem(name) ==
    LET d == LastDot(name)
    IN  IF 1 < d /\ d < Len(name) THEN SubSeq(name, 1, d - 1) ELSE name

\* root:      new_filename = f"{domain}-{slug}-{import_date}.md"
\* directive: dest_filename = filename, or its stem + ".md"
DestFilename(v, row) ==
    IF v = "root"
    THEN DomainOf(v, row) \o <<"-">> \o Slug(row.filename) \o <<"-">> \o Today \o DotMd
    ELSE IF EndsWith(row.filename, DotMd) THEN row.filename
         ELSE PathStem(row.filename) \o DotMd

DestPath(v, row) ==
    Append(DestDir(DomainOf(v, row), StageFolder(v, row)), DestFilename(v, row))

\* the value written after "patterntags: "
\* root:      json.dumps of the field split at ';'
\* directive: json.dumps of the field split at ',', "[]" for an empty field,
\*            and the field as it is when it starts with '['
TagsValue(v, row) ==
    IF v = "root" THEN JsonDumps(SplitTags(row.tags, ";"))
    ELSE IF row.tags # <<>> /\ ~StartsWith(row.tags, <<"[">>)
         THEN JsonDumps(SplitTags(row.tags, ","))
         ELSE IF row.tags = <<>> THEN <<"[", "]">>
              ELSE row.tags

\* one "key: value" line of the header
KV(key, value) == <<key, ":", " ">> \o value

\* the injected header, "---" to "---", as lines
Frontmatter(v, row) ==
    IF v = "root"
    THEN << Dashes,
            KV("patterndomain", DomainOf(v, row)),
            KV("maturationstage", RawStage(v, row)),
            KV("patterntags", TagsValue(v, row)),
            KV("validationstatus", row.validation_status),
            KV("instructionalreadiness", row.instructional_readiness),
            <<"temporal_context", ":">>,
            <<" ", " ">> \o KV("experience_date", row.experience_date),
            <<" ", " ">> \o KV("analysis_date", Today),
            KV("provenance", row.provenance),
            KV("source", <<"\"", "notebooklm", "\"">>),
            KV("source_url", <<"\"">> \o row.source_url \o <<"\"">>),
            KV("related_links", JsonDumps(SplitTags(row.related_links, ";"))),
            KV("import_date", Today),
            Dashes >>
    ELSE << Dashes,
            KV("patterndomain", DomainOf(v, row)),
            KV("maturationstage", RawStage(v, row)),
            KV("patterntags", TagsValue(v, row)),
            KV("validationstatus", <<"singleobservation">>),
            KV("instructionalreadiness", <<"internalreference">>),
            <<"temporal_context", ":">>,
            <<" ", " ">> \o KV("experience_date", <<"'", "'">>),
            <<" ", " ">> \o KV("analysis_date", Today),
            KV("provenance", <<"personaldocumentation">>),
            KV("source", <<"notebooklm">>),
            KV("import_date", Today),
            Dashes >>

\* re.sub(r'^---\n.*?\n---\n', '', content, flags=re.DOTALL) on the lines of
\* content: the first line is "---", and the match ends with the first later
\* line "---" that has a line before it after the opening one and a newline
\* after it; without such a line the text is returned as it is
HeaderEnd(text) ==
    IF Len(text) >= 2 /\ text[1] = Dashes
       /\ \E k \in 3..(Len(text) - 1) : text[k] = Dashes
    THEN CHOOSE k \in 3..(Len(text) - 1) :
            /\ text[k] = Dashes
            /\ \A j \in 3..(k - 1) : text[j] # Dashes
    ELSE 0

StripFrontmatter(text) ==
    IF HeaderEnd(text) = 0 THEN text
    ELSE SubSeq(text, HeaderEnd(text) + 1, Len(text))

\* what f.read() gives the body of the loop: root strips, directive does not
ReadContent(v, text) == IF v = "root" THEN StripFrontmatter(text) ELSE text

\* root:      f.write(frontmatter + content), frontmatter ending "---\n\n"
\* directive: "\n".join(frontmatter) with frontmatter ending "---", "", content
FileText(v, row, content) == Frontmatter(v, row) \o << <<>> >> \o content


(***************************************************************************)
(* The inputs of a run: manifest rows and staged files                     *)
(***************************************************************************)
\* the absence of a file; a text always has at least one line
NoFile == <<>>

\* a row of the manifest; the columns neither variant's Organizer reads
\* (snippet) are left out, and status is carried to show it is never written
Row(path, filename, domain, tags, stage) ==
    [ path |-> path, filename |-> filename, domain |-> domain, tags |-> tags,
      stage |-> stage,
      validation_status |-> <<"singleobservation">>,
      instructional_readiness |-> <<"internalreference">>,
      experience_date |-> <<"2025-01-01">>,
      provenance |-> <<"personaldocumentation">>,
      source_url |-> <<>>,
      related_links |-> <<>>,
      status |-> "pending" ]

FooMd == <<"f","o","o",".","m","d">>
FooBarMd == <<"F","o","o"," ","B","a","r",".","m","d">>
NoteTxt == <<"n","o","t","e",".","t","x","t">>
Tradecraft == <<"t","r","a","d","e","c","r","a","f","t">>
TradecraftRaw == <<"T","r","a","d","e","c","r","a","f","t"," ">>
FormalizedFrameworkRaw == <<"F","o","r","m","a","l","i","z","e","d"," ","F","r","a","m","e","w","o","r","k">>
SemicolonTags == <<"h","u","m","i","n","t",";","c","o","d","e","-","s","n","i","p","p","e","t">>
MemoTxt == <<"m","e","m","o",".","t","x","t">>
Neurobiology == <<"n","e","u","r","o","b","i","o","l","o","g","y">>
BracketTags == <<"[","h","u","m","i","n","t","]">>
CommaTags == <<"h","u","m","i","n","t",","," ","c","-","p","t","s","d">>

\* the row of the end-to-end scenario: foo.md, tradecraft, formalizedframework
RowFoo == Row("foo.md", FooMd, Tradecraft, SemicolonTags, KeyFormalizedFramework)
\* a file of the same name in a nested staging directory
RowSubFoo == Row("sub/foo.md", FooMd, Tradecraft, <<>>, KeyFormalizedFramework)
\* free-form labels as a human types them
RowFooBar == Row("Foo Bar.md", FooBarMd, TradecraftRaw, CommaTags, FormalizedFrameworkRaw)
\* a row nobody has classified yet
RowNote == Row("note.txt", NoteTxt, <<>>, <<>>, KeyRaw)

\* a text file, classified, with a tag field already written as a list
RowMemo == Row("memo.txt", MemoTxt, Neurobiology, BracketTags, KeyAnalyticalSynthesis)

SampleRows == {RowFoo, RowSubFoo, RowFooBar, RowNote, RowMemo}
Paths == {r.path : r \in SampleRows}

Body == <<"H","e","l","l","o"," ","d","o","c","t","r","i","n","e"," ","w","o","r","l","d">>
OldHeaderLine == <<"t","i","t","l","e",":"," ","o","l","d">>

\* "Hello doctrine world"
PlainText == <<Body>>
\* "---\ntitle: old\n---\nHello doctrine world"
HeaderText == <<Dashes, OldHeaderLine, Dashes, Body>>

\* the staged files a run may start from
TextsFor(p) ==
    IF p = "foo.md" THEN {NoFile, PlainText, HeaderText}
    ELSE IF p = "note.txt" THEN {PlainText}
    ELSE {NoFile, PlainText}

RECURSIVE SeqsUpTo(_, _)
SeqsUpTo(S, n) ==
    IF n = 0 THEN {<<>>}
    ELSE LET shorter == SeqsUpTo(S, n - 1)
         IN  shorter \cup {Append(q, x) : q \in {t \in shorter : Len(t) = n - 1}, x \in S}

Manifests == SeqsUpTo(SampleRows, MaxRows) \ {<<>>}

(***************************************************************************)
(* organize_archive as a state machine: one action per file-system step    *)
(***************************************************************************)
NoLocals == [dest_dir |-> <<>>, dest_path |-> <<>>, content |-> NoFile]

\* staging and archive, as one value
Trees == [staging |-> staging, adirs |-> adirs, afiles |-> afiles]
NoSnap == [staging |-> <<>>, adirs |-> {}, afiles |-> <<>>, ended |-> ""]

\* no taxonomy file, no index directory
AbsentFile == [present |-> FALSE, items |-> <<>>]
NoTaxonomy == [domains |-> AbsentFile, tags |-> AbsentFile]
NoIndexes == [dir |-> FALSE, files |-> <<>>]
NoStats == [total |-> 0, domains |-> <<>>, stages |-> <<>>, tags |-> <<>>]
NoBundle == [present |-> FALSE, entries |-> <<>>]
NoCall == [f |-> "none"]
\* nothing reported, called, started or exported yet
NoExtras ==
    /\ stats = NoStats
    /\ arg = NoCall
    /\ result = NoCall
    /\ procs = <<>>
    /\ status = "ready"
    /\ bundle = NoBundle

\* the run command with its manifest in place, nothing printed yet
RunCommand ==
    /\ cmd = "run"
    /\ inputs = {"manifest"}
    /\ exit_status = -1
    /\ out = <<>>
    /\ taxonomy = NoTaxonomy
    /\ issues = <<>>
    /\ indexes = NoIndexes
    /\ NoExtras

LogEntry(k, outcome, dest) == [row |-> k, outcome |-> outcome, dest |-> dest]

Init ==
    /\ variant \in {"root", "directive"}
    /\ manifest \in Manifests
    /\ staging \in {f \in [Paths -> {NoFile, PlainText, HeaderText}] :
                       \A p \in Paths : f[p] \in TextsFor(p)}
    /\ staging0 = staging
    /\ adirs = {}
    /\ afiles = <<>>
    /\ pc = "idle"
    /\ i = 0
    /\ step = "check"
    /\ cur = NoLocals
    /\ log = <<>>
    /\ run = 1
    /\ log1 = <<>>
    /\ snap = NoSnap
    /\ RunCommand

\* the manifest exists and is read; the loop starts at its first row
Start ==
    /\ pc = "idle"
    /\ pc' = "running"
    /\ i' = 1
    /\ UNCHANGED <<variant, manifest, staging, staging0, adirs, afiles, step, cur, log>>
    /\ UNCHANGED others

InRow == pc = "running" /\ i <= Len(manifest)

\* an end of row that records the outcome in the manifest as well
NextRowMarking(entry) ==
    /\ log' = Append(log, entry)
    /\ i' = i + 1
    /\ step' = "check"
    /\ cur' = NoLocals
    /\ manifest' = [manifest EXCEPT ![i].status = entry.outcome]
    /\ UNCHANGED <<variant, staging0, pc>>

\* the row is done: back to the top of the loop with the next one
NextRow(entry) ==
    /\ log' = Append(log, entry)
    /\ i' = i + 1
    /\ step' = "check"
    /\ cur' = NoLocals
    /\ UNCHANGED <<variant, manifest, staging0, pc>>

\* a source that is taken to exist whatever the staging tree holds
SourceExistsAlways(st, row) == TRUE

\* source_path.exists() / src_path.exists()
SourceExists(st, row) == st[row.path] # NoFile

\* directive: if not row.get('pattern_domain'): print [SKIP]; continue
\* (root has no such test)
DomainMissing(v, row) == v = "directive" /\ row.domain = <<>>

RowSkipNoDomain ==
    /\ InRow /\ step = "check"
    /\ DomainMissing(variant, manifest[i])
    /\ NextRow(LogEntry(i, "skip_nodomain", <<>>))
    /\ UNCHANGED <<staging, adirs, afiles>>
    /\ UNCHANGED others

\* if not source_path.exists(): print skip; continue
RowSkipMissing ==
    /\ InRow /\ step = "check"
    /\ ~DomainMissing(variant, manifest[i])
    /\ ~SourceExists(staging, manifest[i])
    /\ NextRow(LogEntry(i, "skip_missing", <<>>))
    /\ UNCHANGED <<staging, adirs, afiles>>
    /\ UNCHANGED others

\* the metadata and the destination are computed
RowPrepare ==
    /\ InRow /\ step = "check"
    /\ ~DomainMissing(variant, manifest[i])
    /\ SourceExists(staging, manifest[i])
    /\ cur' = [ dest_dir  |-> DestDir(DomainOf(variant, manifest[i]),
                                      StageFolder(variant, manifest[i])),
                dest_path |-> DestPath(variant, manifest[i]),
                content   |-> NoFile ]
    /\ step' = "mkdir"
    /\ UNCHANGED <<variant, manifest, staging, staging0, adirs, afiles, pc, i, log>>
    /\ UNCHANGED others

\* target_dir.mkdir(parents=True, exist_ok=True)
RowMkdir ==
    /\ InRow /\ step = "mkdir"
    /\ adirs' = adirs \cup DirAndParents(cur.dest_dir)
    /\ step' = "read"
    /\ UNCHANGED <<variant, manifest, staging, staging0, afiles, pc, i, cur, log>>
    /\ UNCHANGED others

\* mkdir raises (a file is in the way, no permission, name too long):
\* root catches it in the row's try/except and goes on
RowMkdirFailsCaught ==
    /\ InRow /\ step = "mkdir"
    /\ variant = "root"
    /\ NextRow(LogEntry(i, "error_mkdir", <<>>))
    /\ UNCHANGED <<staging, adirs, afiles>>
    /\ UNCHANGED others

\* directive calls mkdir outside any try: the exception ends the run
RowMkdirFailsUncaught ==
    /\ InRow /\ step = "mkdir"
    /\ variant = "directive"
    /\ pc' = "aborted"
    /\ UNCHANGED <<variant, manifest, staging, staging0, adirs, afiles, i, step, cur, log>>
    /\ UNCHANGED others

\* content = f.read(), root then strips a leading header
RowRead ==
    /\ InRow /\ step = "read"
    /\ staging[manifest[i].path] # NoFile
    /\ cur' = [cur EXCEPT !.content = ReadContent(variant, staging[manifest[i].path])]
    /\ step' = "write"
    /\ UNCHANGED <<variant, manifest, staging, staging0, adirs, afiles, pc, i, log>>
    /\ UNCHANGED others

\* open or read raises: logged, next row
RowReadFails ==
    /\ InRow /\ step = "read"
    /\ NextRow(LogEntry(i, "error_read", <<>>))
    /\ UNCHANGED <<staging, adirs, afiles>>
    /\ UNCHANGED others

\* the destination is written (an existing file is overwritten);
\* directive is then done with the row, root goes on to remove the source
RowWrite ==
    /\ InRow /\ step = "write"
    /\ afiles' = (cur.dest_path :> FileText(variant, manifest[i], cur.content)) @@ afiles
    /\ IF variant = "root"
       THEN /\ step' = "remove"
            /\ UNCHANGED <<variant, manifest, staging0, pc, i, cur, log>>
       ELSE NextRow(LogEntry(i, "moved", cur.dest_path))
    /\ UNCHANGED <<staging, adirs>>
    /\ UNCHANGED others

\* open(dest, 'w') raises: logged, next row
RowWriteFails ==
    /\ InRow /\ step = "write"
    /\ NextRow(LogEntry(i, "error_write", <<>>))
    /\ UNCHANGED <<staging, adirs, afiles>>
    /\ UNCHANGED others

\* root: os.remove(source_path); success_count += 1; print Moved
RowRemove ==
    /\ InRow /\ step = "remove"
    /\ staging' = [staging EXCEPT ![manifest[i].path] = NoFile]
    /\ NextRow(LogEntry(i, "moved", cur.dest_path))
    /\ UNCHANGED <<adirs, afiles>>
    /\ UNCHANGED others

\* root: os.remove raises: logged, next row
RowRemoveFails ==
    /\ InRow /\ step = "remove"
    /\ NextRow(LogEntry(i, "error_remove", <<>>))
    /\ UNCHANGED <<staging, adirs, afiles>>
    /\ UNCHANGED others

\* the loop is over
Finish ==
    /\ pc = "running" /\ i > Len(manifest)
    /\ pc' = "done"
    /\ UNCHANGED <<variant, manifest, staging, staging0, adirs, afiles, i, step, cur, log>>
    /\ UNCHANGED others

Next ==
    \/ Start
    \/ RowSkipNoDomain
    \/ RowSkipMissing
    \/ RowPrepare
    \/ RowMkdir
    \/ RowMkdirFailsCaught
    \/ RowMkdirFailsUncaught
    \/ RowRead
    \/ RowReadFails
    \/ RowWrite
    \/ RowWriteFails
    \/ RowRemove
    \/ RowRemoveFails
    \/ Finish

Spec == Init /\ [][Next]_vars


(***************************************************************************)
(* A run that is interrupted, and a second run against the same manifest   *)
(***************************************************************************)
ResumeRows == {RowFoo, RowSubFoo, RowNote}

InitResume ==
    /\ variant \in {"root", "directive"}
    /\ manifest \in SeqsUpTo(ResumeRows, MaxRows) \ {<<>>}
    /\ staging \in {f \in [Paths -> {NoFile, PlainText, HeaderText}] :
                       \A p \in Paths :
                           IF p \in {r.path : r \in ResumeRows}
                           THEN f[p] \in TextsFor(p) ELSE f[p] = NoFile}
    /\ staging0 = staging
    /\ adirs = {}
    /\ afiles = <<>>
    /\ pc = "idle"
    /\ i = 0
    /\ step = "check"
    /\ cur = NoLocals
    /\ log = <<>>
    /\ run = 1
    /\ log1 = <<>>
    /\ snap = NoSnap
    /\ RunCommand

\* the process is killed between two steps of the loop (there is no handler:
\* whatever the loop has done so far stays on disk)
Interrupt ==
    /\ pc = "running"
    /\ run = 1
    /\ pc' = "interrupted"
    /\ UNCHANGED <<variant, manifest, staging, staging0, adirs, afiles, i, step, cur, log>>
    /\ UNCHANGED others

\* organize_archive is started again: the manifest is read afresh, the loop
\* starts at its first row, nothing is remembered of the earlier run
Rerun ==
    /\ pc \in {"done", "interrupted"}
    /\ run = 1
    /\ run' = 2
    /\ log1' = log
    /\ snap' = [staging |-> staging, adirs |-> adirs, afiles |-> afiles, ended |-> pc]
    /\ pc' = "running"
    /\ i' = 1
    /\ step' = "check"
    /\ cur' = NoLocals
    /\ log' = <<>>
    /\ UNCHANGED <<variant, manifest, staging, staging0, adirs, afiles, commands, extras>>

NextResume ==
    \/ Start
    \/ RowSkipNoDomain
    \/ RowSkipMissing
    \/ RowPrepare
    \/ RowMkdir
    \/ RowMkdirFailsCaught
    \/ RowMkdirFailsUncaught
    \/ RowRead
    \/ RowReadFails
    \/ RowWrite
    \/ RowWriteFails
    \/ RowRemove
    \/ RowRemoveFails
    \/ Finish
    \/ Interrupt
    \/ Rerun

SpecResume == InitResume /\ [][NextResume]_vars

\* the whole loop body for one row when no call raises
ApplyRow(v, row, t) ==
    IF DomainMissing(v, row) \/ ~SourceExists(t.staging, row) THEN t
    ELSE [ staging |-> IF v = "root" THEN [t.staging EXCEPT ![row.path] = NoFile]
                       ELSE t.staging,
           adirs   |-> t.adirs \cup DirAndParents(DestDir(DomainOf(v, row), StageFolder(v, row))),
           afiles  |-> (DestPath(v, row) :> FileText(v, row, ReadContent(v, t.staging[row.path])))
                       @@ t.afiles ]

\* the loop over rows k.. of the manifest when no call raises
RECURSIVE OrganizeFrom(_, _, _, _)
OrganizeFrom(v, m, k, t) ==
    IF k > Len(m) THEN t ELSE OrganizeFrom(v, m, k + 1, ApplyRow(v, m[k], t))

(***************************************************************************)
(* Text as one string: what f.read() returns                               *)
(***************************************************************************)
\* "\n".join(lines)
RECURSIVE JoinWith(_, _)
JoinWith(ss, sep) ==
    IF ss = <<>> THEN <<>>
    ELSE IF Len(ss) = 1 THEN ss[1]
         ELSE ss[1] \o <<sep>> \o JoinWith(Tail(ss), sep)

Flat(text) == JoinWith(text, "\n")

\* str.strip() and str.split() without arguments: blanks and newlines alike
IsWs(c) == c \in {" ", "\t", "\n"}

RECURSIVE LStripWs(_)
LStripWs(s) == IF s # <<>> /\ IsWs(s[1]) THEN LStripWs(Tail(s)) ELSE s

RECURSIVE RStripWs(_)
RStripWs(s) ==
    IF s # <<>> /\ IsWs(s[Len(s)]) THEN RStripWs(SubSeq(s, 1, Len(s) - 1)) ELSE s

StripWs(s) == RStripWs(LStripWs(s))

\* the k-th smallest member of a set of positions
Kth(S, k) == CHOOSE j \in S : Cardinality({h \in S : h < j}) = k - 1

\* position of the first occurrence of sub in s at or after position k, 0 if none
Find(s, sub, k) ==
    LET hits == {j \in k..(Len(s) - Len(sub) + 1) : SubSeq(s, j, j + Len(sub) - 1) = sub}
    IN  IF hits = {} THEN 0 ELSE Kth(hits, 1)

\* str.split('\n'): the lines of a string
SplitLines(s) ==
    LET nl      == {j \in 1..Len(s) : s[j] = "\n"}
        from(k) == IF k = 1 THEN 1 ELSE Kth(nl, k - 1) + 1
        to(k)   == IF k = Cardinality(nl) + 1 THEN Len(s) ELSE Kth(nl, k) - 1
    IN  [k \in 1..(Cardinality(nl) + 1) |-> SubSeq(s, from(k), to(k))]

\* str.split(sep, 2): at most three pieces
Split2(s, sep) ==
    LET a == Find(s, sep, 1)
        b == IF a = 0 THEN 0 ELSE Find(s, sep, a + Len(sep))
    IN  IF a = 0 THEN <<s>>
        ELSE IF b = 0 THEN << SubSeq(s, 1, a - 1), SubSeq(s, a + Len(sep), Len(s)) >>
             ELSE << SubSeq(s, 1, a - 1),
                     SubSeq(s, a + Len(sep), b - 1),
                     SubSeq(s, b + Len(sep), Len(s)) >>

\* str.split(sep, 1)
Split1(s, sep) ==
    LET a == Find(s, sep, 1)
    IN  IF a = 0 THEN <<s>>
        ELSE << SubSeq(s, 1, a - 1), SubSeq(s, a + Len(sep), Len(s)) >>

\* str.split(): the words between runs of white space
Words(s) ==
    LET starts == {j \in 1..Len(s) : ~IsWs(s[j]) /\ (j = 1 \/ IsWs(s[j - 1]))}
        ends   == {j \in 1..Len(s) : ~IsWs(s[j]) /\ (j = Len(s) \/ IsWs(s[j + 1]))}
    IN  [k \in 1..Cardinality(starts) |-> SubSeq(s, Kth(starts, k), Kth(ends, k))]

(***************************************************************************)
(* extract_snippet                                                         *)
(***************************************************************************)
WordCount == 75

\* re.sub(r'#+\s', '', text): a run of '#' goes together with the white
\* space character after it; a run followed by anything else stays
RemoveHeadings(s) ==
    LET after(j) == IF \E k \in (j + 1)..Len(s) : s[k] # "#"
                    THEN Kth({k \in (j + 1)..Len(s) : s[k] # "#"}, 1)
                    ELSE 0
        gone == {j \in 1..Len(s) :
                    \/ s[j] = "#" /\ after(j) # 0 /\ IsWs(s[after(j)])
                    \/ IsWs(s[j]) /\ j > 1 /\ s[j - 1] = "#"}
        kept == (1..Len(s)) \ gone
    IN  [k \in 1..Cardinality(kept) |-> s[Kth(kept, k)]]

\* the first word_count words, joined by single blanks
FirstWords(s, n) ==
    LET w == Words(s)
    IN  JoinWith(SubSeq(w, 1, IF Len(w) < n THEN Len(w) ELSE n), " ")

\* directive extract_snippet(text): strip, drop "---"..."---" when the text
\* starts with "---" and splits in three, drop heading marks, cut, mark the cut
\* root extract_snippet(content): the header regex of organize_archive, cut
ExtractSnippetOf(v, text, word_count) ==
    IF v = "root"
    THEN FirstWords(Flat(StripFrontmatter(text)), word_count)
    ELSE LET t0    == StripWs(Flat(text))
             parts == Split2(t0, Dashes)
             t1    == IF StartsWith(t0, Dashes) /\ Len(parts) = 3
                      THEN StripWs(parts[3]) ELSE t0
             t2    == RemoveHeadings(t1)
         IN  FirstWords(t2, word_count)
             \o (IF Len(Words(t2)) > word_count THEN <<".", ".", ".">> ELSE <<>>)

\* extract_snippet(text), word_count left to its default
ExtractSnippet(v, text) == ExtractSnippetOf(v, text, WordCount)

(***************************************************************************)
(* The header parse of generate_indexes (directive)                        *)
(***************************************************************************)
\* for line in fm_lines: if ':' in line: k, v = line.split(':', 1);
\*                                       meta[k.strip()] = v.strip()
\* kept as the list of (key, value) pairs in the order of the lines
RECURSIVE MetaOfLines(_)
MetaOfLines(lines) ==
    IF lines = <<>> THEN <<>>
    ELSE LET kv == Split1(Head(lines), <<":">>)
         IN  (IF Len(kv) = 2 THEN << <<StripWs(kv[1]), StripWs(kv[2])>> >> ELSE <<>>)
             \o MetaOfLines(Tail(lines))

\* text.startswith("---") and text.split("---", 2) has three parts
HasHeader(flat) == StartsWith(flat, Dashes) /\ Len(Split2(flat, Dashes)) = 3

\* meta of a document: parts[1].strip().split('\n'), line by line
ParseMeta(text) ==
    LET flat == Flat(text)
    IN  IF HasHeader(flat)
        THEN MetaOfLines(SplitLines(StripWs(Split2(flat, Dashes)[2])))
        ELSE <<>>

\* content: parts[2] when the header was found, the whole text otherwise
ContentOf(text) ==
    LET flat == Flat(text)
    IN  IF HasHeader(flat) THEN Split2(flat, Dashes)[3] ELSE flat

\* meta.get(key, default): a later line with the same key wins
RECURSIVE MetaGet(_, _, _)
MetaGet(meta, key, default) ==
    IF meta = <<>> THEN default
    ELSE IF meta[Len(meta)][1] = key THEN meta[Len(meta)][2]
         ELSE MetaGet(SubSeq(meta, 1, Len(meta) - 1), key, default)

Uncategorized == <<"U","n","c","a","t","e","g","o","r","i","z","e","d">>
NotAvailable == <<"N","/","A">>

(***************************************************************************)
(* The order of sorted() on str                                            *)
(***************************************************************************)
\* the characters of the model in code point order
Alphabet ==
    << "\t", "\n", " ", "\"", "#", "'", "(", ")", ",", "-", ".", "/",
       "0", "1", "2", "3", "4", "5", "6", "7", "8", "9", ":", ";", "<", ">" >>
    \o UpperChars \o << "[", "]", "_" >> \o LowerChars

\* the characters of a literal that the model writes as one word
Spell(c) ==
    IF c = "singleobservation"
    THEN <<"s","i","n","g","l","e","o","b","s","e","r","v","a","t","i","o","n">>
    ELSE IF c = "<today>" THEN <<"2","0","2","6">>
    ELSE <<c>>

Spelled(s) == Concat([k \in 1..Len(s) |-> Spell(s[k])])

Rank(c) == IF \E k \in 1..Len(Alphabet) : Alphabet[k] = c
           THEN CHOOSE k \in 1..Len(Alphabet) : Alphabet[k] = c
           ELSE 0

\* a < b for two str
RECURSIVE CharsLess(_, _)
CharsLess(a, b) ==
    IF b = <<>> THEN FALSE
    ELSE IF a = <<>> THEN TRUE
    ELSE IF a[1] = b[1] THEN CharsLess(Tail(a), Tail(b))
    ELSE Rank(a[1]) < Rank(b[1])

StrLess(a, b) == CharsLess(Spelled(a), Spelled(b))

(***************************************************************************)
(* Index generation: generate_indexes (directive), generate_indices (root) *)
(***************************************************************************)
ArchiveName(v) == IF v = "root" THEN <<"knowledge-archive">> ELSE <<"archive">>
IndexDirName == <<"_indexes">>
TaxonomyName == <<"t","a","x","o","n","o","m","y">>

\* p.relative_to(ROOT_DIR) with '/' between the parts, p a path under the archive
PosixPath(v, p) == JoinWith(<<ArchiveName(v)>> \o p, "/")

\* a set as a list, in some order
RECURSIVE SetToSeq(_)
SetToSeq(S) ==
    IF S = {} THEN <<>>
    ELSE LET x == CHOOSE y \in S : TRUE IN <<x>> \o SetToSeq(S \ {x})

\* the orders in which a directory scan may yield the members of S
Orders(S) == {q \in [1..Cardinality(S) -> S] : \A x \in S : \E k \in DOMAIN q : q[k] = x}

\* directive: one entry of docs
Doc(v, p, text) ==
    [ path    |-> PosixPath(v, p),
      name    |-> PathStem(p[Len(p)]),
      meta    |-> ParseMeta(text),
      snippet |-> ExtractSnippet(v, SplitLines(ContentOf(text))) ]

\* a grouping that never looks at the header
GroupOfNothing(d, key) == Uncategorized

\* d['meta'].get(key, "Uncategorized")
GroupOf(d, key) == MetaGet(d.meta, <<key>>, Uncategorized)

\* the lines write_index writes for one item
EntryLines(d) ==
    << <<"### ", "[">> \o d.name \o <<"]", "(", "..", "/">> \o d.path \o <<")">>,
       <<"> ">> \o d.snippet,
       <<>>,
       <<"- **Domain:** ", "<backtick>">> \o MetaGet(d.meta, <<"patterndomain">>, NotAvailable) \o <<"<backtick>">>,
       <<"- **Stage:** ", "<backtick>">> \o MetaGet(d.meta, <<"maturationstage">>, NotAvailable) \o <<"<backtick>">>,
       <<>> >>

\* sorted(groups.items()): the group names in ascending order
SortedGroups(docs, key) ==
    SortSeq(SetToSeq({GroupOf(docs[k], key) : k \in 1..Len(docs)}), StrLess)

\* write_index(filename, title, key): the text of the file, as lines
WriteIndex(docs, title, key) ==
    LET groups == SortedGroups(docs, key)
        items(g) == SelectSeq(docs, LAMBDA d : GroupOf(d, key) = g)
        section(g) == << <<"## ">> \o g, <<>> >>
                      \o Concat([k \in 1..Len(items(g)) |-> EntryLines(items(g)[k])])
    IN  << <<"# ", title>>, <<>> >>
        \o Concat([k \in 1..Len(groups) |-> section(groups[k])])
        \o << <<>> >>

IndexMaturation == <<"index-maturation">> \o DotMd
IndexDomains == <<"index-domains">> \o DotMd
IndexValidation == <<"index-validation">> \o DotMd

\* the three files generate_indexes writes from the documents it could read,
\* order being the order of the scan
DirectiveIndexes(files, order) ==
    LET docs == [k \in 1..Len(order) |-> Doc("directive", order[k], files[order[k]])]
    IN  (IndexMaturation :> WriteIndex(docs, "Index by Maturation Stage", "maturationstage"))
        @@ (IndexDomains :> WriteIndex(docs, "Index by Pattern Domain", "patterndomain"))
        @@ (IndexValidation :> WriteIndex(docs, "Index by Validation Status", "validationstatus"))

\* root: re.search(r'patterndomain:\s*(.+)', content), then group(1).strip();
\* <<FALSE, <<>>>> without a match
RECURSIVE SkipWs(_, _)
SkipWs(s, k) == IF k <= Len(s) /\ IsWs(s[k]) THEN SkipWs(s, k + 1) ELSE k

RECURSIVE LineEnd(_, _)
LineEnd(s, k) == IF k < Len(s) /\ s[k + 1] # "\n" THEN LineEnd(s, k + 1) ELSE k

DomainMatch(flat) ==
    LET a == Find(flat, <<"patterndomain", ":">>, 1)
        e == SkipWs(flat, a + 2)
    IN  IF a = 0 THEN <<FALSE, <<>>>>
        ELSE IF e <= Len(flat) THEN <<TRUE, StripWs(SubSeq(flat, e, LineEnd(flat, e)))>>
        ELSE IF \E j \in (a + 2)..Len(flat) : flat[j] # "\n" THEN <<TRUE, <<>>>>
        ELSE <<FALSE, <<>>>>

\* root: the scan leaves out every path with a part named taxonomy, and
\* every file without a patterndomain match
RootIndexed(files, order) ==
    SelectSeq(order, LAMBDA p :
        /\ \A k \in 1..Len(p) : p[k] # TaxonomyName
        /\ DomainMatch(Flat(files[p]))[1])

RootDomain(files, p) == DomainMatch(Flat(files[p]))[2]

\* root: the lines written for one entry
RootEntryLines(files, p) ==
    << <<"## ", "[">> \o p[Len(p)] \o <<"]", "(", "..", "/">> \o PosixPath("root", p) \o <<")">>,
       ExtractSnippet("root", files[p]) \o <<".", ".", ".">>,
       <<>> >>

\* root: the index file of one domain
RootIndexFile(files, order, domain) ==
    LET mine == SelectSeq(RootIndexed(files, order), LAMBDA p : RootDomain(files, p) = domain)
    IN  << <<"# Index: ">> \o domain, <<>> >>
        \o Concat([k \in 1..Len(mine) |-> RootEntryLines(files, mine[k])])
        \o << <<>> >>

\* root: one file "<domain>-index.md" per domain found
RootIndexes(files, order) ==
    LET found == RootIndexed(files, order)
        domains == {RootDomain(files, found[k]) : k \in 1..Len(found)}
    IN  [n \in {d \o <<"-index">> \o DotMd : d \in domains} |->
            RootIndexFile(files, order, SubSeq(n, 1, Len(n) - 4))]

(***************************************************************************)
(* Link validation: validate_archive (directive)                           *)
(***************************************************************************)
\* re.findall(r'\[.*?\]\((.*?)\)', line): from the first '[', the nearest
\* "](" after it, then up to the nearest ')'; the search goes on behind it
RECURSIVE FindLinks(_)
FindLinks(s) ==
    LET a == Find(s, <<"[">>, 1)
        b == IF a = 0 THEN 0 ELSE Find(s, <<"]", "(">>, a + 1)
        c == IF b = 0 THEN 0 ELSE Find(s, <<")">>, b + 2)
    IN  IF c = 0 THEN <<>>
        ELSE <<SubSeq(s, b + 2, c - 1)>> \o FindLinks(SubSeq(s, c + 1, Len(s)))

\* the links of a whole file, in the order of the text ('.' stops at a newline)
LinksOf(lines) == Concat([k \in 1..Len(lines) |-> FindLinks(lines[k])])

\* a path that leaves ROOT_DIR: nothing of it is modelled
Outside == << <<"<outside>">> >>

\* (index_dir / link).resolve(), as the parts below ROOT_DIR
RECURSIVE Walk(_, _)
Walk(stack, parts) ==
    IF parts = <<>> THEN stack
    ELSE LET c == Head(parts)
         IN  IF c = <<>> \/ c = <<".">> THEN Walk(stack, Tail(parts))
             ELSE IF c = <<"..">> \/ c = <<".", ".">>
                  THEN IF stack = <<>> THEN Outside
                       ELSE Walk(SubSeq(stack, 1, Len(stack) - 1), Tail(parts))
                  ELSE Walk(Append(stack, c), Tail(parts))

ResolveLink(link) ==
    IF link # <<>> /\ link[1] = "/" THEN Outside
    ELSE Walk(<<IndexDirName>>, Split(link, "/"))

\* Path.exists() for a path below ROOT_DIR, in a tree with the archive
\* directories ad, the archive files af and the index directory ix
PathExists(v, ad, af, ix, path) ==
    IF path = <<>> THEN TRUE
    ELSE IF path[1] = IndexDirName
         THEN /\ ix.dir
              /\ Len(path) = 1 \/ (Len(path) = 2 /\ path[2] \in DOMAIN ix.files)
    ELSE IF path[1] = ArchiveName(v)
         THEN \/ Len(path) = 1 /\ (ad # {} \/ DOMAIN af # {})
              \/ Tail(path) \in ad
              \/ Tail(path) \in DOMAIN af
    ELSE FALSE

\* the files a glob of "*.md" yields
MdFiles(files) == {p \in DOMAIN files : EndsWith(p[Len(p)], DotMd)}
MdNames(files) == {n \in DOMAIN files : EndsWith(n, DotMd)}

\* the issues of one index file: one per link whose target does not exist,
\* or the one read error
IndexFileIssues(v, ad, af, ix, name, unreadable) ==
    IF name \in unreadable THEN << [kind |-> "error", file |-> name, link |-> <<>>] >>
    ELSE LET links == LinksOf(ix.files[name])
             broken == SelectSeq(links, LAMBDA l : ~PathExists(v, ad, af, ix, ResolveLink(l)))
         IN  [k \in 1..Len(broken) |-> [kind |-> "broken", file |-> name, link |-> broken[k]]]

\* indexed_files: the targets that exist, of the index files that were read
IndexedFiles(v, ad, af, ix, unreadable) ==
    LET targets(n) == {ResolveLink(LinksOf(ix.files[n])[k]) : k \in 1..Len(LinksOf(ix.files[n]))}
        all == UNION {targets(n) : n \in MdNames(ix.files) \ unreadable}
    IN  {t \in all : PathExists(v, ad, af, ix, t)}

\* the issues of every index file, and the archived files no link leads to
LinkReport(v, ad, af, ix, unreadable) ==
    LET names   == SetToSeq(MdNames(ix.files))
        indexed == IndexedFiles(v, ad, af, ix, unreadable)
    IN  [ names   |-> names,
          found   |-> [k \in 1..Len(names) |->
                          IndexFileIssues(v, ad, af, ix, names[k], unreadable)],
          orphans |-> {p \in MdFiles(af) : (<<ArchiveName(v)>> \o p) \notin indexed} ]

\* the whole issue list: index files in the order ixorder, then the orphans
\* in the order aorder of the archive scan
IssueList(v, report, ixorder, aorder) ==
    LET of(n)  == report.found[CHOOSE k \in 1..Len(report.names) : report.names[k] = n]
        orphan == SelectSeq(aorder, LAMBDA p : p \in report.orphans)
    IN  Concat([k \in 1..Len(ixorder) |-> of(ixorder[k])])
        \o [k \in 1..Len(orphan) |->
               [kind |-> "orphan", file |-> PosixPath(v, orphan[k]), link |-> <<>>]]

ArchiveIssues(v, ad, af, ix, ixorder, aorder, unreadable) ==
    IssueList(v, LinkReport(v, ad, af, ix, unreadable), ixorder, aorder)

(***************************************************************************)
(* The index and validate commands over an archive                         *)
(***************************************************************************)
MaxDocs == 2
MaxEvents == 4

FooParenMd == <<"f","o","o","(","1",")",".","m","d">>
StrayMd == <<"s","t","r","a","y",".","m","d">>

\* a file exported as a second copy
RowParen == Row("foo(1).md", FooParenMd, Tradecraft, <<>>, KeyRaw)

\* the rows whose documents the archive may hold
IndexRows == {RowFoo, RowParen}

\* where organize_archive puts each of them, and a file somebody dropped
\* into the archive root, without a header
DocPaths(v) == {DestPath(v, r) : r \in IndexRows} \cup {<<StrayMd>>}

DocText(v, p) ==
    IF p = <<StrayMd>> THEN PlainText
    ELSE LET r == CHOOSE x \in IndexRows : DestPath(v, x) = p
         IN  FileText(v, r, ReadContent(v, PlainText))

\* the archives of at most MaxDocs of these documents
Archives(v) ==
    {[p \in S |-> DocText(v, p)] : S \in {T \in SUBSET DocPaths(v) : Cardinality(T) <= MaxDocs}}

\* the directories of an archive that holds the files af
DirsOf(af) == UNION {DirAndParents(SubSeq(p, 1, Len(p) - 1)) : p \in DOMAIN af}

InitIndex ==
    /\ variant \in {"root", "directive"}
    /\ manifest = <<>>
    /\ staging = [p \in Paths |-> NoFile]
    /\ staging0 = staging
    /\ afiles \in Archives(variant)
    /\ adirs = DirsOf(afiles)
    /\ pc = "idle"
    /\ i = 0
    /\ step = "check"
    /\ cur = NoLocals
    /\ log = <<>>
    /\ run = 1
    /\ log1 = <<>>
    /\ snap = NoSnap
    /\ cmd = "index"
    /\ inputs = {"manifest", "archive"}
    /\ exit_status = -1
    /\ out = <<>>
    /\ taxonomy = NoTaxonomy
    /\ issues = <<>>
    /\ indexes = NoIndexes
    /\ NoExtras

\* what the organizer and the second run keep, none of which these commands touch
organizer == <<variant, manifest, staging, staging0, pc, i, step, cur, run, log1, snap,
               inputs, exit_status, taxonomy, extras>>

\* generate_indexes / generate_indices over the documents read in the given
\* order: the files written replace those of the same name, others stay
IndexesAfter(v, af, ix, order) ==
    [ dir   |-> TRUE,
      files |-> (IF v = "root" THEN RootIndexes(af, order) ELSE DirectiveIndexes(af, order))
                @@ ix.files ]

\* the index command, every document read
GenerateIndexes ==
    /\ Len(out) < MaxEvents
    /\ \E order \in Orders(MdFiles(afiles)) :
          indexes' = IndexesAfter(variant, afiles, indexes, order)
    /\ cmd' = "index"
    /\ log' = <<>>
    /\ out' = Append(out, "indexed")
    /\ UNCHANGED <<organizer, adirs, afiles, issues>>

\* the index command when the read of one document raises: it is reported
\* and left out
GenerateIndexesSkipping ==
    /\ Len(out) < MaxEvents
    /\ \E p \in MdFiles(afiles) :
       \E order \in Orders(MdFiles(afiles) \ {p}) :
          /\ indexes' = IndexesAfter(variant, afiles, indexes, order)
          /\ log' = <<LogEntry(0, "skipped", p)>>
    /\ cmd' = "index"
    /\ out' = Append(out, "indexed_skipping")
    /\ UNCHANGED <<organizer, adirs, afiles, issues>>

\* between two commands a document is added to the archive or taken out of it
ArchiveChange ==
    /\ Len(out) < MaxEvents
    /\ \E new \in Archives(variant) :
          /\ \/ \E p \in DOMAIN new : DOMAIN afiles = DOMAIN new \ {p}
             \/ \E p \in DOMAIN afiles : DOMAIN new = DOMAIN afiles \ {p}
          /\ afiles' = new
          /\ adirs' = adirs \cup DirsOf(new)
    /\ out' = Append(out, "changed")
    /\ UNCHANGED <<organizer, cmd, log, issues, indexes>>

\* validate_archive, every index file read
ValidateArchive ==
    /\ variant = "directive"
    /\ Len(out) < MaxEvents
    /\ indexes.dir
    /\ \E report \in {LinkReport(variant, adirs, afiles, indexes, {})} :
       \E ixorder \in Orders(MdNames(indexes.files)) :
       \E aorder \in Orders(MdFiles(afiles)) :
          issues' = IssueList(variant, report, ixorder, aorder)
    /\ cmd' = "validate"
    /\ out' = Append(out, "validated")
    /\ UNCHANGED <<organizer, adirs, afiles, log, indexes>>

\* validate_archive when the read of one index file raises
ValidateArchiveUnreadable ==
    /\ variant = "directive"
    /\ Len(out) < MaxEvents
    /\ indexes.dir
    /\ \E n \in MdNames(indexes.files) :
       \E report \in {LinkReport(variant, adirs, afiles, indexes, {n})} :
       \E ixorder \in Orders(MdNames(indexes.files)) :
       \E aorder \in Orders(MdFiles(afiles)) :
          issues' = IssueList(variant, report, ixorder, aorder)
    /\ cmd' = "validate"
    /\ out' = Append(out, "validated_unreadable")
    /\ UNCHANGED <<organizer, adirs, afiles, log, indexes>>

\* validate_archive without an index directory: reported, nothing checked
ValidateArchiveNoIndexDir ==
    /\ variant = "directive"
    /\ Len(out) < MaxEvents
    /\ ~indexes.dir
    /\ cmd' = "validate"
    /\ out' = Append(out, "index_dir_not_found")
    /\ UNCHANGED <<organizer, adirs, afiles, log, issues, indexes>>

NextIndex ==
    \/ GenerateIndexes
    \/ GenerateIndexesSkipping
    \/ ArchiveChange
    \/ ValidateArchive
    \/ ValidateArchiveUnreadable
    \/ ValidateArchiveNoIndexDir

SpecIndex == InitIndex /\ [][NextIndex]_vars

(***************************************************************************)
(* validate_manifest (root)                                                *)
(***************************************************************************)
DisplayLimit == 10

\* a taxonomy file: a JSON array of bare ids, or of {id, description} objects
TaxonomyFile(shape, ids) ==
    [present |-> TRUE, items |-> [k \in 1..Len(ids) |-> [shape |-> shape, id |-> ids[k]]]]

\* an item of the array as a value: a str is its characters, an object is
\* one value that no str equals
ItemValue(item) ==
    IF item.shape = "str" THEN item.id ELSE <<"{id:">> \o item.id \o <<"}">>

\* a loader that takes set(data) whatever the items are
ValidIdsAsGiven(file) ==
    IF ~file.present THEN {}
    ELSE {ItemValue(file.items[k]) : k \in 1..Len(file.items)}

\* valid_domains / valid_tags: empty without the file; item.get('id') of every
\* item when the first item is an object; set(data) otherwise
ValidIds(file) ==
    IF ~file.present THEN {}
    ELSE IF file.items # <<>> /\ file.items[1].shape = "dict"
         THEN {file.items[k].id : k \in 1..Len(file.items)}
         ELSE {ItemValue(file.items[k]) : k \in 1..Len(file.items)}

\* sorted(list(valid)), as the message shows it
Expected(valid) == SortSeq(SetToSeq(valid), StrLess)

\* a check that stops at the domain
RowIssuesDomainOnly(row, doms, tags) ==
    IF row.domain # <<>> /\ row.domain \notin doms
    THEN << [kind |-> "domain", file |-> row.filename, value |-> row.domain,
             expected |-> Expected(doms)] >>
    ELSE <<>>

\* the issues of one row: its domain when it is not empty and not valid, then
\* each of its tags that is not valid, in the order of the field
RowIssues(row, doms, tags) ==
    LET mine == SplitTags(row.tags, ";")
        bad  == SelectSeq(mine, LAMBDA t : t \notin tags)
    IN  (IF row.domain # <<>> /\ row.domain \notin doms
         THEN << [kind |-> "domain", file |-> row.filename, value |-> row.domain,
                  expected |-> Expected(doms)] >>
         ELSE <<>>)
        \o [k \in 1..Len(bad) |->
               [kind |-> "tag", file |-> row.filename, value |-> bad[k],
                expected |-> Expected(tags)]]

\* a list that is never emptied between two validations
ManifestIssuesKept(rows, doms, tags) ==
    issues \o Concat([k \in 1..Len(rows) |-> RowIssues(rows[k], doms, tags)])

\* issues, over all the rows of the manifest in their order
ManifestIssues(rows, doms, tags) ==
    Concat([k \in 1..Len(rows) |-> RowIssues(rows[k], doms, tags)])

\* for issue in issues[:10]
Displayed(list) ==
    SubSeq(list, 1, IF Len(list) < DisplayLimit THEN Len(list) ELSE DisplayLimit)

ManyTags == <<"a",";","b",";","c",";","d",";","e",";","f",";","g",";","h",";","i",";","j">>
Unknown == <<"u","n","k","n","o","w","n">>
Humint == <<"h","u","m","i","n","t">>
CodeSnippet == <<"c","o","d","e","-","s","n","i","p","p","e","t">>

\* a row whose domain and tags are all outside the taxonomy
RowMany == Row("many.md", <<"m","a","n","y",".","m","d">>, Unknown, ManyTags, KeyRaw)

ValidateRows == {RowFoo, RowNote, RowFooBar, RowMany}

DomainIds == <<Tradecraft, Neurobiology>>
TagIds == <<Humint, CodeSnippet>>

\* the taxonomy files the validation may find
TaxonomyFiles(ids) ==
    {AbsentFile, TaxonomyFile("str", <<>>), TaxonomyFile("str", ids), TaxonomyFile("dict", ids)}

InitValidate ==
    /\ variant = "root"
    /\ manifest \in SeqsUpTo(ValidateRows, MaxRows) \ {<<>>}
    /\ staging = [p \in Paths |-> NoFile]
    /\ staging0 = staging
    /\ adirs = {}
    /\ afiles = <<>>
    /\ pc = "idle"
    /\ i = 0
    /\ step = "check"
    /\ cur = NoLocals
    /\ log = <<>>
    /\ run = 1
    /\ log1 = <<>>
    /\ snap = NoSnap
    /\ cmd = "validate"
    /\ inputs \in {{"manifest"}, {}}
    /\ exit_status = -1
    /\ out = <<>>
    /\ taxonomy \in [domains : TaxonomyFiles(DomainIds), tags : TaxonomyFiles(TagIds)]
    /\ issues = <<>>
    /\ indexes = NoIndexes
    /\ NoExtras

\* what validate_manifest has no access to
unvalidated == <<variant, staging, staging0, adirs, afiles, pc, i, step, cur, log, log1, snap,
                 exit_status, indexes, extras>>

\* validate_manifest with the manifest in place: every row is checked
ValidateManifest ==
    /\ variant = "root"
    /\ "manifest" \in inputs
    /\ run <= 2
    /\ issues' = ManifestIssues(manifest, ValidIds(taxonomy.domains), ValidIds(taxonomy.tags))
    /\ out' = Append(out, IF issues' = <<>> THEN "compliant" ELSE "failed")
    /\ cmd' = "validate"
    /\ run' = run + 1
    /\ UNCHANGED <<unvalidated, manifest, inputs, taxonomy>>

\* validate_manifest without a manifest: reported, nothing checked
ValidateManifestMissing ==
    /\ variant = "root"
    /\ "manifest" \notin inputs
    /\ run <= 2
    /\ out' = Append(out, "manifest_not_found")
    /\ cmd' = "validate"
    /\ run' = run + 1
    /\ UNCHANGED <<unvalidated, manifest, inputs, taxonomy, issues>>

NextValidate ==
    \/ ValidateManifest
    \/ ValidateManifestMissing

SpecValidate == InitValidate /\ [][NextValidate]_vars

(***************************************************************************)
(* The report: generate_report (root), report_statistics (directive)       *)
(***************************************************************************)
\* json.loads of the text of an array of strings, read from position k on;
\* mode is where the reader stands: before an item, in one, after one.
\* (Arrays of strings are the only JSON values the Organizer writes.)
RECURSIVE JsonScan(_, _, _, _, _)
JsonScan(s, k, mode, word, acc) ==
    IF k > Len(s) THEN [ok |-> mode = "after", items |-> acc]
    ELSE IF mode = "before"
         THEN IF IsWs(s[k]) THEN JsonScan(s, k + 1, mode, word, acc)
              ELSE IF s[k] = "\"" THEN JsonScan(s, k + 1, "in", <<>>, acc)
              ELSE [ok |-> FALSE, items |-> <<>>]
    ELSE IF mode = "in"
         THEN IF s[k] = "\\"
              THEN IF k < Len(s)
                   THEN JsonScan(s, k + 2, mode, Append(word, s[k + 1]), acc)
                   ELSE [ok |-> FALSE, items |-> <<>>]
              ELSE IF s[k] = "\"" THEN JsonScan(s, k + 1, "after", <<>>, Append(acc, word))
              ELSE JsonScan(s, k + 1, mode, Append(word, s[k]), acc)
    ELSE IF IsWs(s[k]) THEN JsonScan(s, k + 1, mode, word, acc)
         ELSE IF s[k] = "," THEN JsonScan(s, k + 1, "before", <<>>, acc)
         ELSE [ok |-> FALSE, items |-> <<>>]

\* json.loads(s): ok with the items when s is an array of strings
JsonLoads(s) ==
    LET t == StripWs(s)
    IN  IF Len(t) < 2 \/ t[1] # "[" \/ t[Len(t)] # "]" THEN [ok |-> FALSE, items |-> <<>>]
        ELSE LET inner == SubSeq(t, 2, Len(t) - 1)
             IN  IF StripWs(inner) = <<>> THEN [ok |-> TRUE, items |-> <<>>]
                 ELSE JsonScan(inner, 1, "before", <<>>, <<>>)

ReadmeMd == <<"r","e","a","d","m","e",".","m","d">>
ReadmeUpperMd == <<"R","E","A","D","M","E",".","m","d">>

\* counts[key] = how many members of S have that key
Tally(S, key(_)) == [k \in {key(p) : p \in S} |-> Cardinality({p \in S : key(p) = k})]

\* root: the files that count, all but those under a "taxonomy" directory
\* and the README files
RootCounted(af) ==
    {p \in MdFiles(af) :
        /\ \A k \in 1..Len(p) : p[k] # TaxonomyName
        /\ Lower(p[Len(p)]) # ReadmeMd}

\* root: domain and stage are the first two parts of the path below the
\* archive, for a path of two parts or more
RootStats(af) ==
    LET counted == RootCounted(af)
        deep    == {p \in counted : Len(p) >= 2}
        first(p)  == p[1]
        second(p) == p[2]
    IN  [total |-> Cardinality(counted),
         domains |-> Tally(deep, first),
         stages |-> Tally(deep, second),
         tags |-> <<>>]

\* the text after the first colon of the last header line that starts with
\* the key, "unknown" without one
HeaderLines(text) ==
    LET content == Flat(text)
    IN  IF StartsWith(content, Dashes)
        THEN LET fm == SplitLines(Split2(content, Dashes)[2])
             IN  [k \in 1..Len(fm) |-> StripWs(fm[k])]
        ELSE <<>>

ValueOfLine(line) == StripWs(Split1(line, <<":">>)[2])

ReportValue(text, key) ==
    LET lines == HeaderLines(text)
        hits  == {k \in 1..Len(lines) : StartsWith(lines[k], <<key, ":">>)}
    IN  IF hits = {} THEN Unknown
        ELSE ValueOfLine(lines[Kth(hits, Cardinality(hits))])

\* the tags: json.loads of the last patterntags line that it accepts
ReportTags(text) ==
    LET lines == HeaderLines(text)
        hits  == {k \in 1..Len(lines) :
                     /\ StartsWith(lines[k], <<"patterntags", ":">>)
                     /\ JsonLoads(ValueOfLine(lines[k])).ok}
    IN  IF hits = {} THEN <<>>
        ELSE JsonLoads(ValueOfLine(lines[Kth(hits, Cardinality(hits))])).items

\* directive: every file counts; domain, stage and tags come from the header
\* of each file that could be read
DirectiveStats(af, unreadable) ==
    LET read == MdFiles(af) \ unreadable
        domain(p) == ReportValue(af[p], "patterndomain")
        stage(p)  == ReportValue(af[p], "maturationstage")
        all       == UNION {{ReportTags(af[p])[k] : k \in 1..Len(ReportTags(af[p]))} : p \in read}
        uses(t)   == UNION {{<<p, k>> : k \in {j \in 1..Len(ReportTags(af[p])) :
                                                     ReportTags(af[p])[j] = t}} : p \in read}
    IN  [total |-> Cardinality(MdFiles(af)),
         domains |-> Tally(read, domain),
         stages |-> Tally(read, stage),
         tags |-> [t \in all |-> Cardinality(uses(t))]]

\* the archives a report may find: the documents of the index, and a README
ReportPaths(v) == DocPaths(v) \cup {<<Tradecraft, ReadmeUpperMd>>}

ReportArchives(v) ==
    {[p \in S |-> IF p \in DocPaths(v) THEN DocText(v, p) ELSE PlainText] :
        S \in {T \in SUBSET ReportPaths(v) : Cardinality(T) <= MaxDocs}}

(***************************************************************************)
(* The scan of staging: suggest_metadata, generate_manifest                *)
(***************************************************************************)
Contains(s, sub) == Find(s, sub, 1) # 0

Doctrine == <<"d","o","c","t","r","i","n","e">>
CodeWords == {<<"c","o","d","e">>, <<"f","u","n","c","t","i","o","n">>, <<"d","e","f"," ">>}
JournalWords == {<<"j","o","u","r","n","a","l">>, <<"d","i","a","r","y">>, <<"f","e","l","t">>}
ForensicPsychology ==
    <<"f","o","r","e","n","s","i","c","-","p","s","y","c","h","o","l","o","g","y">>
SocialEngineering == <<"s","o","c","i","a","l","-","e","n","g","i","n","e","e","r","i","n","g">>
Reflection == <<"r","e","f","l","e","c","t","i","o","n">>

\* a heuristic that looks for the journal words first
SuggestJournalFirst(content) ==
    LET lower_content == Lower(content)
    IN  [ stage  |-> IF Contains(lower_content, Doctrine)
                     THEN KeyFormalizedFramework ELSE KeyExperientialData,
          domain |-> IF \E w \in JournalWords : Contains(lower_content, w) THEN ForensicPsychology
                     ELSE IF \E w \in CodeWords : Contains(lower_content, w) THEN Tradecraft
                     ELSE SocialEngineering,
          tags   |-> IF \E w \in JournalWords : Contains(lower_content, w) THEN Reflection
                     ELSE IF \E w \in CodeWords : Contains(lower_content, w) THEN CodeSnippet
                     ELSE <<>> ]

\* suggest_metadata(content, filename): domain, ";".join(tags), stage
SuggestMetadata(content) ==
    LET lower_content == Lower(content)
    IN  [ stage  |-> IF Contains(lower_content, Doctrine)
                     THEN KeyFormalizedFramework ELSE KeyExperientialData,
          domain |-> IF \E w \in CodeWords : Contains(lower_content, w) THEN Tradecraft
                     ELSE IF \E w \in JournalWords : Contains(lower_content, w)
                          THEN ForensicPsychology
                          ELSE SocialEngineering,
          tags   |-> IF \E w \in CodeWords : Contains(lower_content, w) THEN CodeSnippet
                     ELSE IF \E w \in JournalWords : Contains(lower_content, w)
                          THEN Reflection
                          ELSE <<>> ]

DotTxt == <<".","t","x","t">>

\* the name of a staged file
FilenameOf(p) == (CHOOSE r \in SampleRows : r.path = p).filename

\* a scan that does not go into the directories under staging
CandidatesTopLevel(v, st) ==
    {p \in DOMAIN st :
        /\ st[p] # NoFile
        /\ p \notin {"sub/foo.md"}
        /\ \/ EndsWith(FilenameOf(p), DotMd)
           \/ v = "directive" /\ EndsWith(FilenameOf(p), DotTxt)}

\* the files the scan finds: root, STAGING_DIR.rglob("*.md"); directive, the
\* .txt and .md files of os.walk(STAGING_DIR)
Candidates(v, st) ==
    {p \in DOMAIN st :
        /\ st[p] # NoFile
        /\ \/ EndsWith(FilenameOf(p), DotMd)
           \/ v = "directive" /\ EndsWith(FilenameOf(p), DotTxt)}

\* the record appended for one file
ManifestRow(v, p, text) ==
    LET content == Flat(text)
        m == SuggestMetadata(content)
        row == IF v = "root"
               THEN [Row(p, FilenameOf(p), m.domain, m.tags, m.stage)
                        EXCEPT !.experience_date = Today]
               ELSE Row(p, FilenameOf(p), <<>>, <<>>, KeyRaw)
    IN  [x \in DOMAIN row \cup {"snippet"} |->
            IF x = "snippet" THEN ExtractSnippet(v, text) ELSE row[x]]

\* a manifest somebody has already classified
OldManifests == {<<>>, <<RowFooBar>>}

InitManifest ==
    /\ variant \in {"root", "directive"}
    /\ manifest \in OldManifests
    /\ staging \in {f \in [Paths -> {NoFile, PlainText, HeaderText}] :
                       \A p \in Paths : f[p] \in TextsFor(p) \cup {NoFile}}
    /\ staging0 = staging
    /\ adirs = {}
    /\ afiles = <<>>
    /\ pc = "idle"
    /\ i = 0
    /\ step = "check"
    /\ cur = NoLocals
    /\ log = <<>>
    /\ run = 1
    /\ log1 = <<>>
    /\ snap = NoSnap
    /\ cmd = "init"
    /\ inputs = {"staging"}
    /\ exit_status = -1
    /\ out = <<>>
    /\ taxonomy = NoTaxonomy
    /\ issues = <<>>
    /\ indexes = NoIndexes
    /\ NoExtras

\* generate_manifest when the files in unread cannot be read: each is
\* reported and left out, the others get one row each, in the order of the scan
ManifestAfter(v, st, order) == [k \in 1..Len(order) |-> ManifestRow(v, order[k], st[order[k]])]

\* generate_manifest, every file read
GenerateManifest ==
    /\ cmd = "init"
    /\ out = <<>>
    /\ \E order \in Orders(Candidates(variant, staging)) :
          manifest' = ManifestAfter(variant, staging, order)
    /\ out' = Append(out, "manifest_generated")
    /\ UNCHANGED <<variant, staging, staging0, adirs, afiles, pc, i, step, cur, log,
                   run, log1, snap, extras, cmd, inputs, exit_status, taxonomy, issues, indexes>>

\* generate_manifest when the read of one file raises
GenerateManifestSkipping ==
    /\ cmd = "init"
    /\ out = <<>>
    /\ \E p \in Candidates(variant, staging) :
       \E order \in Orders(Candidates(variant, staging) \ {p}) :
          /\ manifest' = ManifestAfter(variant, staging, order)
          /\ log' = <<LogEntry(0, "skipped", p)>>
    /\ out' = Append(out, "manifest_generated_skipping")
    /\ UNCHANGED <<variant, staging, staging0, adirs, afiles, pc, i, step, cur,
                   run, log1, snap, extras, cmd, inputs, exit_status, taxonomy, issues, indexes>>

NextManifest ==
    \/ GenerateManifest
    \/ GenerateManifestSkipping

SpecManifest == InitManifest /\ [][NextManifest]_vars

(***************************************************************************)
(* The two functions called on their own                                   *)
(***************************************************************************)
MaxWords == 4

HeadingLine == <<"#"," ","T","i","t","l","e">>
SpacedLine == <<" ","a"," "," ","b","\t","c"," ">>

\* texts with and without a header block, with an unterminated one, with a
\* heading, with runs of blanks, empty
SnippetTexts ==
    { PlainText, HeaderText, <<Dashes, OldHeaderLine, Body>>, <<HeadingLine, Body>>,
      <<SpacedLine>>, << <<>> >>, <<Dashes>>, <<Dashes, Dashes, Body, HeadingLine>> }

Words1(w) == <<"a"," ">> \o w \o <<" ","b">>

\* contents with each keyword, with keywords of both sets, in both cases,
\* inside longer words, and with none
SuggestContents ==
    { Words1(w) : w \in CodeWords \cup JournalWords \cup {Doctrine} }
    \cup { <<"D","O","C","T","R","I","N","E">>, <<"C","o","d","e">>,
           <<"f","e","l","t"," ","c","o","d","e">>, <<"d","i","a","r","y"," ","d","e","f"," ","x">>,
           <<"u","n","d","e","f","i","n","e","d">>, <<"d","e","c","o","d","e","r">>,
           <<"j","o","u","r","n","a","l"," ","d","o","c","t","r","i","n","e">>,
           <<"d","e","f">>, <<>>, Body }

InitCalls ==
    /\ variant \in {"root", "directive"}
    /\ manifest = <<>>
    /\ staging = [p \in Paths |-> NoFile]
    /\ staging0 = staging
    /\ adirs = {}
    /\ afiles = <<>>
    /\ pc = "idle"
    /\ i = 0
    /\ step = "check"
    /\ cur = NoLocals
    /\ log = <<>>
    /\ run = 1
    /\ log1 = <<>>
    /\ snap = NoSnap
    /\ cmd = "none"
    /\ inputs = {}
    /\ exit_status = -1
    /\ out = <<>>
    /\ taxonomy = NoTaxonomy
    /\ issues = <<>>
    /\ indexes = NoIndexes
    /\ stats = NoStats
    /\ arg \in [f : {"extract_snippet"}, text : SnippetTexts, word_count : 0..MaxWords]
               \cup [f : {"suggest_metadata"}, content : SuggestContents]
    /\ result = NoCall
    /\ procs = <<>>
    /\ status = "ready"
    /\ bundle = NoBundle

\* snippet = extract_snippet(text, word_count)
CallExtractSnippet ==
    /\ arg.f = "extract_snippet"
    /\ result = NoCall
    /\ result' = [f |-> "returned", value |-> ExtractSnippetOf(variant, arg.text, arg.word_count)]
    /\ UNCHANGED <<variant, manifest, staging, staging0, adirs, afiles, pc, i, step, cur, log,
                   run, log1, snap, commands, stats, arg, procs, status, bundle>>

\* domain, tags, stage = suggest_metadata(content, filename)
CallSuggestMetadata ==
    /\ arg.f = "suggest_metadata"
    /\ variant = "root"
    /\ result = NoCall
    /\ result' = [f |-> "returned", value |-> SuggestMetadata(arg.content)]
    /\ UNCHANGED <<variant, manifest, staging, staging0, adirs, afiles, pc, i, step, cur, log,
                   run, log1, snap, commands, stats, arg, procs, status, bundle>>

NextCalls ==
    \/ CallExtractSnippet
    \/ CallSuggestMetadata

SpecCalls == InitCalls /\ [][NextCalls]_vars

(***************************************************************************)
(* Runs over staged files that each have a text of their own               *)
(***************************************************************************)
\* the text of the file at p: the common body, then a line that names p
OwnText(p) == <<Body, <<p>>>>

InitBodies ==
    /\ variant \in {"root", "directive"}
    /\ manifest \in SeqsUpTo(ResumeRows, MaxRows) \ {<<>>}
    /\ staging \in {f \in [Paths -> {NoFile} \cup {OwnText(p) : p \in Paths}] :
                       \A p \in Paths :
                           IF p \in {r.path : r \in ResumeRows}
                           THEN f[p] \in {NoFile, OwnText(p)} ELSE f[p] = NoFile}
    /\ staging0 = staging
    /\ adirs = {}
    /\ afiles = <<>>
    /\ pc = "idle"
    /\ i = 0
    /\ step = "check"
    /\ cur = NoLocals
    /\ log = <<>>
    /\ run = 1
    /\ log1 = <<>>
    /\ snap = NoSnap
    /\ RunCommand

SpecBodies == InitBodies /\ [][Next]_vars

(***************************************************************************)
(* The dashboard: ArchiveDashboard.run_toolkit, run_script, run_process    *)
(***************************************************************************)
MaxProcs == 2

\* what the buttons start: the five steps of the toolkit, three scripts
ToolkitArgs == {"init", "validate", "run", "index", "report"}
Scripts == {"ingest", "export", "cleanup"}

InitUI ==
    /\ variant = "root"
    /\ manifest = <<>>
    /\ staging = [p \in Paths |-> NoFile]
    /\ staging0 = staging
    /\ adirs = {}
    /\ afiles = <<>>
    /\ pc = "idle"
    /\ i = 0
    /\ step = "check"
    /\ cur = NoLocals
    /\ log = <<>>
    /\ run = 1
    /\ log1 = <<>>
    /\ snap = NoSnap
    /\ cmd = "gui"
    /\ inputs = {"manifest", "archive"}
    /\ exit_status = -1
    /\ out = <<>>
    /\ taxonomy = NoTaxonomy
    /\ issues = <<>>
    /\ indexes = NoIndexes
    /\ NoExtras

\* all that the dashboard leaves alone
behind == <<variant, manifest, staging, staging0, adirs, afiles, pc, i, step, cur, log,
            run, log1, snap, cmd, inputs, exit_status, taxonomy, issues, indexes,
            stats, arg, result, bundle>>

\* a button is pressed: the command line is logged, the status bar set, and
\* a thread started for the child process; run_process then returns
Click(c) ==
    /\ Len(procs) < MaxProcs
    /\ out' = Append(out, <<">>>", c>>)
    /\ status' = "executing"
    /\ procs' = Append(procs, [command |-> c, at |-> "thread", lines |-> 0])
    /\ UNCHANGED behind

ClickToolkit == \E c \in ToolkitArgs : Click(c)

ClickScript == \E c \in Scripts : Click(c)

\* the thread: subprocess.Popen(command, ...)
ProcessStart ==
    \E k \in 1..Len(procs) :
        /\ procs[k].at = "thread"
        /\ procs' = [procs EXCEPT ![k].at = "running"]
        /\ UNCHANGED <<behind, out, status>>

\* Popen raises: the failure is logged, the status bar shows the error
ProcessStartFails ==
    \E k \in 1..Len(procs) :
        /\ procs[k].at = "thread"
        /\ procs' = [procs EXCEPT ![k].at = "failed"]
        /\ out' = Append(out, <<"Execution failed", procs[k].command>>)
        /\ status' = "System Error"
        /\ UNCHANGED behind

\* the thread reads a line of the child's output and has it logged
ProcessOutput ==
    \E k \in 1..Len(procs) :
        /\ procs[k].at = "running"
        /\ procs[k].lines = 0
        /\ procs' = [procs EXCEPT ![k].lines = 1]
        /\ out' = Append(out, <<"output", procs[k].command>>)
        /\ UNCHANGED <<behind, status>>

\* the child ends with the return code rc
ProcessEnd ==
    \E k \in 1..Len(procs) : \E rc \in {0, 1} :
        /\ procs[k].at = "running"
        /\ procs' = [procs EXCEPT ![k].at = "ended"]
        /\ status' = IF rc = 0 THEN "Operation Complete" ELSE "Failed"
        /\ UNCHANGED <<behind, out>>

NextUI ==
    \/ ClickToolkit
    \/ ClickScript
    \/ ProcessStart
    \/ ProcessStartFails
    \/ ProcessOutput
    \/ ProcessEnd

SpecUI == InitUI /\ [][NextUI]_vars

(***************************************************************************)
(* The export toolkit (directive): bundle_to_json, verify_bundle           *)
(***************************************************************************)
\* a header value of the bundle: a string, or a list when json.loads took it
\* val = v.strip(); if val.startswith('[') and val.endswith(']'): try json.loads
BundleValue(val) ==
    IF val # <<>> /\ val[1] = "[" /\ val[Len(val)] = "]" /\ JsonLoads(val).ok
    THEN [list |-> TRUE, v |-> JsonLoads(val).items]
    ELSE [list |-> FALSE, v |-> val]

\* metadata of one document: the header lines of the index parse, each
\* value possibly turned into a list
BundleMeta(text) ==
    LET meta == ParseMeta(text)
    IN  [k \in 1..Len(meta) |-> <<meta[k][1], BundleValue(meta[k][2])>>]

\* one entry of the bundle
BundleEntry(p, text) ==
    [ filename |-> p[Len(p)],
      path     |-> PosixPath("directive", p),
      metadata |-> BundleMeta(text),
      content  |-> IF HasHeader(Flat(text)) THEN StripWs(ContentOf(text)) ELSE Flat(text) ]

\* the entries, in the order the files are met
BundleEntries(af, order) == [k \in 1..Len(order) |-> BundleEntry(order[k], af[order[k]])]

\* meta.get(key): None when no line has the key
Missing == [list |-> FALSE, v |-> <<"None">>]
BundleGet(meta, key) == MetaGet(meta, <<key>>, Missing)

\* if not meta.get(key): None and the empty string are both falsy, and so is
\* the empty list
Falsy(value) == value = Missing \/ value.v = <<>>

\* the critical fields check: the two keys that must have a value
EntryIssuesKeysOnly(entry) ==
    (IF Falsy(BundleGet(entry.metadata, "patterndomain"))
     THEN << [kind |-> "MISSING", file |-> entry.filename, key |-> "patterndomain"] >>
     ELSE <<>>)
    \o (IF Falsy(BundleGet(entry.metadata, "maturationstage"))
        THEN << [kind |-> "MISSING", file |-> entry.filename, key |-> "maturationstage"] >>
        ELSE <<>>)

\* the issues of one entry, in the order verify_bundle appends them
EntryIssues(entry) ==
    EntryIssuesKeysOnly(entry)
    \o (IF BundleGet(entry.metadata, "patterntags") # Missing
           /\ ~BundleGet(entry.metadata, "patterntags").list
        THEN << [kind |-> "TYPE", file |-> entry.filename, key |-> "patterntags"] >>
        ELSE <<>>)

RECURSIVE BundleIssues(_)
BundleIssues(entries) ==
    IF entries = <<>> THEN <<>>
    ELSE EntryIssues(Head(entries)) \o BundleIssues(Tail(entries))

\* rows as a human may fill them in
SpacedDashDomain == <<"a"," ","-"," ","b">>
DashedStage == <<"r","a","w","-","-","-","v","2">>
\* "a - b" becomes the domain "a---b"
RowDashDomain == Row("foo.md", FooMd, SpacedDashDomain, CommaTags, KeyRaw)
RowDashStage == Row("sub/foo.md", FooMd, Tradecraft, <<>>, DashedStage)
RowNoStage == Row("Foo Bar.md", FooBarMd, TradecraftRaw, CommaTags, <<>>)
RowBlankDomain == Row("foo.md", FooMd, <<" ">>, <<>>, KeyRaw)
RowBracket == Row("sub/foo.md", FooMd, Neurobiology, BracketTags, KeyAnalyticalSynthesis)

ExportRows == {RowFoo, RowFooBar, RowNote, RowDashDomain, RowDashStage, RowNoStage,
               RowBlankDomain, RowBracket}

InitExport ==
    /\ variant = "directive"
    /\ manifest \in SeqsUpTo(ExportRows, MaxRows) \ {<<>>}
    /\ staging \in {f \in [Paths -> {NoFile, PlainText}] :
                       \A p \in Paths :
                           IF p \in {r.path : r \in ExportRows}
                           THEN f[p] \in {NoFile, PlainText} ELSE f[p] = NoFile}
    /\ staging0 = staging
    /\ adirs = {}
    /\ afiles = <<>>
    /\ pc = "idle"
    /\ i = 0
    /\ step = "check"
    /\ cur = NoLocals
    /\ log = <<>>
    /\ run = 1
    /\ log1 = <<>>
    /\ snap = NoSnap
    /\ RunCommand

unexported == <<variant, manifest, staging, staging0, adirs, afiles, pc, i, step, cur, log,
                run, log1, snap, cmd, inputs, exit_status, taxonomy, indexes,
                stats, arg, procs, status>>

\* --json without an archive directory: reported, nothing written
BundleNoArchive ==
    /\ pc = "idle"
    /\ adirs = {}
    /\ out = <<>>
    /\ out' = Append(out, "no_archive")
    /\ UNCHANGED <<unexported, issues, result, bundle>>

\* --json: every *.md file below the archive becomes an entry of the bundle
BundleToJson ==
    /\ pc \in {"done", "aborted"}
    /\ adirs # {}
    /\ ~bundle.present
    /\ \E order \in Orders(MdFiles(afiles)) :
          bundle' = [present |-> TRUE, entries |-> BundleEntries(afiles, order)]
    /\ out' = Append(out, "bundled")
    /\ UNCHANGED <<unexported, issues, result>>

\* --json when the read of one file raises: warned, the file is left out
BundleToJsonSkipping ==
    /\ pc \in {"done", "aborted"}
    /\ adirs # {}
    /\ ~bundle.present
    /\ \E p \in MdFiles(afiles) : \E order \in Orders(MdFiles(afiles) \ {p}) :
          bundle' = [present |-> TRUE, entries |-> BundleEntries(afiles, order)]
    /\ out' = Append(out, "bundled")
    /\ UNCHANGED <<unexported, issues, result>>

\* --verify without a bundle: reported, nothing checked
VerifyNoBundle ==
    /\ ~bundle.present
    /\ pc \in {"done", "aborted"}
    /\ result = NoCall
    /\ result' = [f |-> "no_bundle"]
    /\ UNCHANGED <<unexported, issues, out, bundle>>

\* --verify: the issues of every entry are collected and printed
VerifyBundle ==
    /\ bundle.present
    /\ result.f # "verify_bundle"
    /\ issues' = BundleIssues(bundle.entries)
    /\ result' = [f |-> "verify_bundle"]
    /\ UNCHANGED <<unexported, out, bundle>>

NextExport ==
    \/ Start
    \/ RowSkipNoDomain
    \/ RowSkipMissing
    \/ RowPrepare
    \/ RowMkdir
    \/ RowMkdirFailsUncaught
    \/ RowRead
    \/ RowReadFails
    \/ RowWrite
    \/ RowWriteFails
    \/ Finish
    \/ BundleNoArchive
    \/ BundleToJson
    \/ BundleToJsonSkipping
    \/ VerifyNoBundle
    \/ VerifyBundle

SpecExport == InitExport /\ [][NextExport]_vars

(***************************************************************************)
(* The commands: main (root), __main__ (directive)                         *)
(***************************************************************************)
CommandRows == {RowFoo, RowNote}

\* one command line, and the files it finds: the manifest or none, the
\* archive directory or none, each taxonomy file or none
InitCommands ==
    /\ variant \in {"root", "directive"}
    /\ cmd \in {"run", "validate", "report"}
    /\ inputs \in SUBSET {"manifest", "archive"}
    /\ manifest \in IF "manifest" \in inputs
                    THEN SeqsUpTo(CommandRows, MaxRows) \ {<<>>}
                    ELSE {<<>>}
    /\ staging \in {f \in [Paths -> {NoFile, PlainText, HeaderText}] :
                       \A p \in Paths :
                           IF cmd = "run" /\ p \in {r.path : r \in CommandRows}
                           THEN f[p] \in TextsFor(p) ELSE f[p] = NoFile}
    /\ staging0 = staging
    /\ afiles \in IF cmd = "report" /\ "archive" \in inputs
                  THEN ReportArchives(variant) ELSE {<<>>}
    /\ adirs = DirsOf(afiles)
    /\ pc = "idle"
    /\ i = 0
    /\ step = "check"
    /\ cur = NoLocals
    /\ log = <<>>
    /\ run = 1
    /\ log1 = <<>>
    /\ snap = [staging |-> staging, adirs |-> adirs, afiles |-> afiles, ended |-> "start"]
    /\ exit_status = -1
    /\ out = <<>>
    /\ taxonomy \in IF cmd = "validate" /\ variant = "root"
                    THEN [domains : {AbsentFile, TaxonomyFile("str", DomainIds)},
                          tags : {AbsentFile, TaxonomyFile("dict", TagIds)}]
                    ELSE {NoTaxonomy}
    /\ issues = <<>>
    /\ indexes \in IF cmd = "validate" /\ variant = "directive"
                   THEN {NoIndexes, [dir |-> TRUE, files |-> <<>>]}
                   ELSE {NoIndexes}
    /\ NoExtras

\* run: organize_archive finds the manifest and enters its loop
RunStart ==
    /\ cmd = "run"
    /\ "manifest" \in inputs
    /\ Start

\* run: organize_archive finds no manifest, says so and returns
RunNoManifest ==
    /\ cmd = "run"
    /\ "manifest" \notin inputs
    /\ pc = "idle"
    /\ pc' = "returned"
    /\ out' = Append(out, "manifest_not_found")
    /\ UNCHANGED <<variant, manifest, staging, staging0, adirs, afiles, i, step, cur, log,
                   run, log1, snap, extras, cmd, inputs, exit_status, taxonomy, issues, indexes>>

\* run, directive: generate_indexes() follows organize_archive() however it
\* returned
RunGenerateIndexes ==
    /\ cmd = "run"
    /\ variant = "directive"
    /\ pc \in {"done", "returned"}
    /\ \E order \in Orders(MdFiles(afiles)) :
          indexes' = IndexesAfter(variant, afiles, indexes, order)
    /\ pc' = "indexed"
    /\ out' = Append(out, "indexed")
    /\ UNCHANGED <<variant, manifest, staging, staging0, adirs, afiles, i, step, cur, log,
                   run, log1, snap, extras, cmd, inputs, exit_status, taxonomy, issues>>

\* validate, root
CommandValidateManifest == cmd = "validate" /\ out = <<>> /\ ValidateManifest

CommandValidateManifestMissing == cmd = "validate" /\ out = <<>> /\ ValidateManifestMissing

\* validate, directive
CommandValidateArchive == cmd = "validate" /\ out = <<>> /\ ValidateArchive

CommandValidateArchiveNoIndexDir == cmd = "validate" /\ out = <<>> /\ ValidateArchiveNoIndexDir

\* report, every file read: the counts are taken and printed
Report ==
    /\ cmd = "report"
    /\ out = <<>>
    /\ "archive" \in inputs
    /\ stats' = IF variant = "root" THEN RootStats(afiles) ELSE DirectiveStats(afiles, {})
    /\ out' = Append(out, "report")
    /\ UNCHANGED <<variant, manifest, staging, staging0, adirs, afiles, pc, i, step, cur, log,
                   run, log1, snap, cmd, inputs, exit_status, taxonomy, issues, indexes,
                   arg, result, procs, status, bundle>>

\* report, directive, when the read of one file raises: the file is counted
\* in the total and in nothing else
ReportUnreadable ==
    /\ cmd = "report"
    /\ variant = "directive"
    /\ out = <<>>
    /\ "archive" \in inputs
    /\ \E p \in MdFiles(afiles) :
          /\ stats' = DirectiveStats(afiles, {p})
          /\ log' = <<LogEntry(0, "skipped", p)>>
    /\ out' = Append(out, "report")
    /\ UNCHANGED <<variant, manifest, staging, staging0, adirs, afiles, pc, i, step, cur,
                   run, log1, snap, cmd, inputs, exit_status, taxonomy, issues, indexes,
                   arg, result, procs, status, bundle>>

\* report without an archive directory: reported, nothing counted
ReportNoArchive ==
    /\ cmd = "report"
    /\ out = <<>>
    /\ "archive" \notin inputs
    /\ out' = Append(out, "archive_not_found")
    /\ UNCHANGED <<variant, manifest, staging, staging0, adirs, afiles, pc, i, step, cur, log,
                   run, log1, snap, extras, cmd, inputs, exit_status, taxonomy, issues, indexes>>

\* the function the command line names has returned, or an exception has
\* left it
Returned ==
    \/ pc = "aborted"
    \/ cmd = "run" /\ variant = "root" /\ pc \in {"done", "returned"}
    \/ cmd = "run" /\ variant = "directive" /\ pc = "indexed"
    \/ cmd \in {"validate", "report"} /\ out # <<>>

\* the interpreter ends: status 1 after a traceback, 0 after falling off the
\* end of the script (no sys.exit anywhere)
Exit ==
    /\ exit_status = -1
    /\ Returned
    /\ exit_status' = IF pc = "aborted" THEN 1 ELSE 0
    /\ UNCHANGED <<variant, manifest, staging, staging0, adirs, afiles, pc, i, step, cur, log,
                   run, log1, snap, extras, cmd, inputs, out, taxonomy, issues, indexes>>

NextCommands ==
    \/ RunStart
    \/ RunNoManifest
    \/ RowSkipNoDomain
    \/ RowSkipMissing
    \/ RowPrepare
    \/ RowMkdir
    \/ RowMkdirFailsCaught
    \/ RowMkdirFailsUncaught
    \/ RowRead
    \/ RowReadFails
    \/ RowWrite
    \/ RowWriteFails
    \/ RowRemove
    \/ RowRemoveFails
    \/ Finish
    \/ RunGenerateIndexes
    \/ CommandValidateManifest
    \/ CommandValidateManifestMissing
    \/ CommandValidateArchive
    \/ CommandValidateArchiveNoIndexDir
    \/ Report
    \/ ReportUnreadable
    \/ ReportNoArchive
    \/ Exit

SpecCommands == InitCommands /\ [][NextCommands]_vars

(***************************************************************************)
(* Vocabulary of the properties                                            *)
(***************************************************************************)
Rows == 1..Len(log)

\* row k went through without an error: its "Moved" / "[MOVE]" line was printed
Moved(k) == log[k].outcome = "moved"

\* a classified row is one with a non-empty domain
Classified(k) == manifest[k].domain # <<>>

\* no later row of the run wrote to the same destination, the row in hand included
WroteTo(j) ==
    IF log[j].outcome \in {"moved", "error_remove"}
    THEN DestPath(variant, manifest[j])
    ELSE <<>>

LastWriter(k) ==
    /\ \A j \in (k + 1)..Len(log) : WroteTo(j) # log[k].dest
    /\ ~(InRow /\ step = "remove" /\ cur.dest_path = log[k].dest)

\* the lines of the injected header, "---" to "---"
HeaderLen == Len(Frontmatter(variant, RowFoo))

\* what follows the injected header and the blank line after it
BodyOf(text) == SubSeq(text, HeaderLen + 2, Len(text))

\* the text opens with a "---" line and has a later "---" line closing it
StartsWithHeader(text) ==
    /\ Len(text) >= 2
    /\ text[1] = Dashes
    /\ \E k \in 2..Len(text) : text[k] = Dashes

\* the text without such a leading header
WithoutHeader(text) ==
    IF StartsWithHeader(text)
    THEN LET k == CHOOSE c \in 2..Len(text) :
                     text[c] = Dashes /\ \A j \in 2..(c - 1) : text[j] # Dashes
         IN  IF k = Len(text) THEN << <<>> >> ELSE SubSeq(text, k + 1, Len(text))
    ELSE text

(***************************************************************************)
(* C1: after organize_archive completes, every row with a non-empty        *)
(* domain whose source existed and was processed without error has its     *)
(* staged source file gone and an archived file at its destination path.   *)
(***************************************************************************)
C1_SourceGoneAfterOrganize ==
    pc = "done" =>
        \A k \in Rows :
            (Classified(k) /\ staging0[manifest[k].path] # NoFile /\ Moved(k))
                => /\ staging[manifest[k].path] = NoFile
                   /\ log[k].dest \in DOMAIN afiles

(***************************************************************************)
(* C2: while organize_archive processes a row whose domain field is empty, *)
(* no staged file is removed or changed and no file and no directory is    *)
(* created in the archive.                                                 *)
(***************************************************************************)
C2_EmptyDomainUntouched ==
    [][ (InRow /\ manifest[i].domain = <<>>)
            => UNCHANGED <<staging, adirs, afiles>> ]_vars

(***************************************************************************)
(* C3: a row whose source file does not exist when organize_archive comes  *)
(* to it is reported as skipped, and processing it creates no file or      *)
(* directory and deletes nothing: the very next step of the run logs the   *)
(* skip, leaves staging and archive as they are and moves to the next row. *)
(***************************************************************************)
C3_MissingSourceSkipped ==
    [][ (InRow /\ step = "check" /\ staging[manifest[i].path] = NoFile)
            => /\ UNCHANGED <<staging, adirs, afiles>>
               /\ Len(log') = Len(log) + 1
               /\ log'[Len(log')].row = i
               /\ log'[Len(log')].outcome \in {"skip_missing", "skip_nodomain"}
               /\ i' = i + 1
               /\ step' = "check" ]_vars

\* a classified row whose source was absent has been skipped
C3_Witness ==
    \E k \in Rows :
        /\ Classified(k)
        /\ staging0[manifest[k].path] = NoFile
        /\ log[k].outcome = "skip_missing"
        /\ afiles = <<>> /\ adirs = {}

(***************************************************************************)
(* C4: every file written by organize_archive is the injected header, a    *)
(* blank line and the body of a staged source with its leading ---         *)
(* delimited header removed; what follows the injected header never starts *)
(* with a --- header.                                                      *)
(***************************************************************************)
C4_NoDoubleHeader ==
    \A p \in DOMAIN afiles :
        /\ afiles[p][1] = Dashes
        /\ afiles[p][HeaderLen] = Dashes
        /\ afiles[p][HeaderLen + 1] = <<>>
        /\ ~StartsWithHeader(BodyOf(afiles[p]))
        /\ \E q \in Paths :
              staging0[q] # NoFile /\ BodyOf(afiles[p]) = WithoutHeader(staging0[q])

(***************************************************************************)
(* C5: within one run, two distinct classified rows with existing sources  *)
(* never get the same destination path.                                    *)
(***************************************************************************)
C5_NoDestinationCollision ==
    \A j, k \in Rows :
        (/\ j # k
         /\ manifest[j].path # manifest[k].path
         /\ Classified(j) /\ Classified(k)
         /\ Moved(j) /\ Moved(k))
            => log[j].dest # log[k].dest

(***************************************************************************)
(* C6: an error while processing one row (unreadable source, directory     *)
(* creation failure, unwritable destination) is logged for that row and    *)
(* never aborts the run: the run ends only after every row of the manifest *)
(* has been processed and has its line in the log.                         *)
(***************************************************************************)
C6_ErrorNeverAbortsRun ==
    /\ pc # "aborted"
    /\ pc = "done" => Len(log) = Len(manifest)

(***************************************************************************)
(* C7: a classified row is written under archive_root/<d>/, d being its    *)
(* domain stripped, lowercased and with spaces replaced by hyphens         *)
(* ("Tradecraft " gives tradecraft), and the header's patterndomain is d.  *)
(***************************************************************************)
NormalizedDomain(d) ==
    LET s == Lower(Strip(d))
    IN  [k \in 1..Len(s) |-> IF s[k] = " " THEN "-" ELSE s[k]]

C7_DomainNormalized ==
    \A k \in Rows :
        (Classified(k) /\ Moved(k) /\ LastWriter(k)) =>
            /\ log[k].dest[1] = NormalizedDomain(manifest[k].domain)
            /\ (manifest[k].domain = TradecraftRaw => log[k].dest[1] = Tradecraft)
            /\ afiles[log[k].dest][2] =
                   <<"patterndomain", ":", " ">> \o NormalizedDomain(manifest[k].domain)

(***************************************************************************)
(* C8: the stage folder of a classified row is one of the three stage      *)
(* folders: the label lowercased, with spaces and hyphens removed, looked  *)
(* up in the stage table ("Formalized Framework" gives                     *)
(* formalized_frameworks); anything else gives experiential_data.          *)
(***************************************************************************)
NormalizedStage(label) ==
    SelectSeq(Lower(label), LAMBDA c : c \notin {" ", "-"})

StageTable(key) ==
    CASE key = KeyExperientialData -> ExperientialDataFolder
      [] key = KeyAnalyticalSynthesis -> AnalyticalSynthesisFolder
      [] key = KeyFormalizedFramework -> FormalizedFrameworksFolder
      [] OTHER -> ExperientialDataFolder

C8_StageFolderNormalized ==
    \A k \in Rows :
        (Classified(k) /\ Moved(k)) =>
            LET d == log[k].dest
            IN  /\ d[Len(d) - 1] \in StageFolders
                /\ d[Len(d) - 1] = StageTable(NormalizedStage(manifest[k].stage))
                /\ (manifest[k].stage = FormalizedFrameworkRaw
                        => d[Len(d) - 1] = FormalizedFrameworksFolder)

(***************************************************************************)
(* C9: the patterntags value in the header of a classified row is a JSON   *)
(* array with one string per tag: the semicolon-separated field            *)
(* "humint;code-snippet" gives ["humint", "code-snippet"] and an empty     *)
(* field gives [].                                                         *)
(***************************************************************************)
C9_TagsJsonArray ==
    \A k \in Rows :
        (Classified(k) /\ Moved(k) /\ LastWriter(k)) =>
            LET line == afiles[log[k].dest][4]
            IN  /\ (manifest[k].tags = SemicolonTags =>
                       line = <<"patterntags", ":", " ", "[", "\"">>
                              \o <<"h","u","m","i","n","t">> \o <<"\"", ",", " ", "\"">>
                              \o <<"c","o","d","e","-","s","n","i","p","p","e","t">> \o <<"\"", "]">>)
                /\ (manifest[k].tags = <<>> =>
                       line = <<"patterntags", ":", " ", "[", "]">>)

(***************************************************************************)
(* C10 as first stated: the destination file name is                       *)
(* <domain>-<slug>-<today>.md, slug being the file name lowercased, with   *)
(* the .md suffix and spaces removed and every character outside           *)
(* [a-z0-9-] stripped.                                                     *)
(***************************************************************************)
SlugAsStated(filename) ==
    LET l == Lower(filename)
        stem == IF EndsWith(l, DotMd) THEN SubSeq(l, 1, Len(l) - 3) ELSE l
    IN  SelectSeq(stem, LAMBDA c : c # " " /\ c \in SlugChars)

C10_NameAsStated ==
    \A k \in Rows :
        (Classified(k) /\ Moved(k)) =>
            LET d == log[k].dest
            IN  d[Len(d)] = d[1] \o <<"-">> \o SlugAsStated(manifest[k].filename)
                                 \o <<"-">> \o Today \o DotMd

(***************************************************************************)
(* C10, amended: in the root variant the destination file name is          *)
(* <domain>-<slug>-<today>.md, slug being the file name lowercased, with   *)
(* every occurrence of ".md" removed, every space replaced by a hyphen and *)
(* every other character outside [a-z0-9-] stripped (foo.md of domain      *)
(* tradecraft, stage formalizedframework is written to                     *)
(* tradecraft/formalized_frameworks/tradecraft-foo-<today>.md, and         *)
(* "Foo Bar.md" gets the slug foo-bar); in the directive variant it is the *)
(* row's file name, with its last suffix replaced by .md when it does not  *)
(* end in .md.                                                             *)
(***************************************************************************)
\* one pass over the lowercased name
RECURSIVE SlugOnePass(_)
SlugOnePass(l) ==
    IF l = <<>> THEN <<>>
    ELSE IF StartsWith(l, DotMd) THEN SlugOnePass(SubSeq(l, 4, Len(l)))
    ELSE IF l[1] = " " THEN <<"-">> \o SlugOnePass(Tail(l))
    ELSE IF l[1] \in SlugChars THEN <<l[1]>> \o SlugOnePass(Tail(l))
    ELSE SlugOnePass(Tail(l))

C10_DestinationName ==
    \A k \in Rows :
        (Classified(k) /\ Moved(k)) =>
            LET d    == log[k].dest
                name == d[Len(d)]
                f    == manifest[k].filename
            IN  IF variant = "root"
                THEN /\ name = manifest[k].domain \o <<"-">> \o SlugOnePass(Lower(f))
                                  \o <<"-", "<today>", ".", "m", "d">>
                     /\ (manifest[k] = RowFoo =>
                            d = << Tradecraft, <<"formalized_frameworks">>,
                                   Tradecraft \o <<"-", "f", "o", "o", "-", "<today>",
                                                   ".", "m", "d">> >>)
                     /\ (f = FooBarMd =>
                            name = manifest[k].domain
                                   \o <<"-", "f", "o", "o", "-", "b", "a", "r", "-",
                                        "<today>", ".", "m", "d">>)
                     /\ (f = MemoTxt =>
                            name = manifest[k].domain
                                   \o <<"-", "m", "e", "m", "o", "t", "x", "t", "-",
                                        "<today>", ".", "m", "d">>)
                ELSE /\ (EndsWith(f, DotMd) => name = f)
                     /\ (f = FooMd => name = <<"f", "o", "o", ".", "m", "d">>)
                     /\ (f = MemoTxt => name = <<"m", "e", "m", "o", ".", "m", "d">>)

\* the root variant has moved a classified row whose file name holds a space
C10_Witness ==
    /\ variant = "root"
    /\ \E k \in Rows :
          /\ Classified(k) /\ Moved(k)
          /\ manifest[k].filename = FooBarMd
          /\ log[k].dest \in DOMAIN afiles

(***************************************************************************)
(* Vocabulary of the properties about a second run                         *)
(***************************************************************************)
\* the run that ended before this one removed the source of row k
FirstRunRemoved(k) ==
    /\ staging0[manifest[k].path] # NoFile
    /\ snap.staging[manifest[k].path] = NoFile

\* no row of the logged run ended in its except branch
NoErrors(l) ==
    \A k \in 1..Len(l) : l[k].outcome \in {"moved", "skip_nodomain", "skip_missing"}

\* staging and archive are as the earlier run left them
SameTrees ==
    /\ staging = snap.staging
    /\ adirs = snap.adirs
    /\ afiles = snap.afiles

\* this is the second run, and the first one went through all its rows
SecondAfterCompleted == run = 2 /\ snap.ended = "done"

\* the document of row k has been migrated by the run in hand
Migrated(k) == \E j \in Rows : Moved(j) /\ manifest[j].path = manifest[k].path

\* what one run without interruption and without error leaves behind
Uninterrupted ==
    OrganizeFrom(variant, manifest, 1, [staging |-> staging0, adirs |-> {}, afiles |-> <<>>])

C12_ResumeAfterInterrupt ==
    /\ (run = 1 /\ pc = "interrupted") =>
          \A k \in 1..Len(manifest) :
              staging0[manifest[k].path] # NoFile =>
                  (~Migrated(k) <=> staging[manifest[k].path] # NoFile)
    /\ (run = 2 /\ snap.ended = "interrupted" /\ pc = "done"
            /\ NoErrors(log1) /\ NoErrors(log)) =>
          Trees = Uninterrupted

(***************************************************************************)
(* Vocabulary of the properties about the commands                         *)
(***************************************************************************)
Exited == exit_status # -1

\* the pass over the manifest went to its end
PassCompleted == cmd = "run" /\ "manifest" \in inputs /\ pc \in {"done", "indexed"}

\* an input the command needs is not there
RequiredAbsent ==
    \/ cmd = "run" /\ "manifest" \notin inputs
    \/ cmd = "validate" /\ variant = "root" /\ "manifest" \notin inputs
    \/ cmd = "validate" /\ variant = "root"
          /\ (~taxonomy.domains.present \/ ~taxonomy.tags.present)
    \/ cmd = "report" /\ "archive" \notin inputs

\* the command said which input it misses, and said nothing else
ReportedAbsent ==
    /\ Len(out) = 1
    /\ out[1] \in {"manifest_not_found", "taxonomy_not_found", "archive_not_found"}

\* no file or directory created, modified or deleted, no row checked
NothingDone ==
    /\ staging = staging0
    /\ adirs = snap.adirs
    /\ afiles = snap.afiles
    /\ indexes = NoIndexes
    /\ issues = <<>>

(***************************************************************************)
(* C13: the run command ends with a non-zero exit status when the manifest *)
(* is absent, and with exit status zero when the pass completes, also when *)
(* rows were skipped with warnings.                                        *)
(***************************************************************************)
C13_ExitStatus ==
    Exited /\ cmd = "run" =>
        /\ "manifest" \notin inputs => exit_status # 0
        /\ PassCompleted => exit_status = 0

(***************************************************************************)
(* C14: when a required input is absent (the manifest for run or validate, *)
(* a taxonomy file for validate, the archive directory for report), the    *)
(* command reports it and stops before creating, modifying or deleting any *)
(* file: run without a manifest generates no index, validate without a     *)
(* taxonomy file checks no row.                                            *)
(***************************************************************************)
C14_StopsOnAbsentInput ==
    Exited /\ RequiredAbsent => ReportedAbsent /\ NothingDone

(***************************************************************************)
(* Vocabulary of the properties about the validation of the manifest       *)
(***************************************************************************)
\* the ids a taxonomy file lists, whatever the shape of its items
TaxonomyIdSet(file) == {file.items[k].id : k \in 1..Len(file.items)}

\* the same file, its items written in the other shape
OtherShape(file) ==
    [present |-> file.present,
     items |-> [k \in 1..Len(file.items) |->
                  [shape |-> IF file.items[k].shape = "str" THEN "dict" ELSE "str",
                   id |-> file.items[k].id]]]

\* a validation has gone through the rows
Validated == cmd = "validate" /\ variant = "root" /\ out # <<>> /\ "manifest" \in inputs

TagsOfRow(k) == SplitTags(manifest[k].tags, ";")

BadDomain(k) ==
    manifest[k].domain # <<>> /\ manifest[k].domain \notin TaxonomyIdSet(taxonomy.domains)

BadTags(k) == {t \in 1..Len(TagsOfRow(k)) : TagsOfRow(k)[t] \notin TaxonomyIdSet(taxonomy.tags)}

Recorded(kind, file, value) ==
    \E n \in 1..Len(issues) :
        issues[n].kind = kind /\ issues[n].file = file /\ issues[n].value = value

RECURSIVE SumOver(_, _)
SumOver(f, S) ==
    IF S = {} THEN 0
    ELSE LET x == CHOOSE y \in S : TRUE IN f[x] + SumOver(f, S \ {x})

\* how many issues the manifest calls for
IssuesCalledFor ==
    SumOver([k \in 1..Len(manifest) |->
                (IF BadDomain(k) THEN 1 ELSE 0) + Cardinality(BadTags(k))],
            1..Len(manifest))

(***************************************************************************)
(* C15: validate_manifest records an issue for every row whose non-empty   *)
(* domain is not a taxonomy domain id and for every tag of every row that  *)
(* is not a taxonomy tag id, none for a domain or tag of the taxonomy nor   *)
(* for an empty domain; the list covers all the rows, whatever the number  *)
(* of issues displayed.                                                    *)
(***************************************************************************)
C15_IssuesExact ==
    Validated =>
        /\ \A k \in 1..Len(manifest) :
              /\ BadDomain(k) <=> Recorded("domain", manifest[k].filename, manifest[k].domain)
              /\ \A t \in 1..Len(TagsOfRow(k)) :
                    t \in BadTags(k) <=> Recorded("tag", manifest[k].filename, TagsOfRow(k)[t])
        /\ Len(issues) = IssuesCalledFor

\* more issues than are displayed, next to a row that has none
C15_Witness ==
    /\ Validated
    /\ Len(issues) > DisplayLimit
    /\ Len(Displayed(issues)) = DisplayLimit
    /\ \E k \in 1..Len(manifest) :
          manifest[k].domain # <<>> /\ ~BadDomain(k) /\ TagsOfRow(k) # <<>> /\ BadTags(k) = {}

C17_ShapeIndependent ==
    /\ ValidIds(OtherShape(taxonomy.domains)) = ValidIds(taxonomy.domains)
    /\ ValidIds(OtherShape(taxonomy.tags)) = ValidIds(taxonomy.tags)
    /\ Validated =>
          issues = ManifestIssues(manifest, ValidIds(OtherShape(taxonomy.domains)),
                                  ValidIds(OtherShape(taxonomy.tags)))

\* objects for the domains, bare ids for the tags; a row accepted, one not
C17_Witness ==
    /\ Validated
    /\ taxonomy.domains = TaxonomyFile("dict", DomainIds)
    /\ taxonomy.tags = TaxonomyFile("str", TagIds)
    /\ issues # <<>>
    /\ \E k \in 1..Len(manifest) : manifest[k].domain # <<>> /\ ~BadDomain(k)

(***************************************************************************)
(* Vocabulary of the properties about the report                           *)
(***************************************************************************)
Reported == cmd = "report" /\ out = <<"report">>

\* the archived documents
Documents == MdFiles(afiles)

\* how many documents have x as the part of their path at position n
WithPart(n, x) == Cardinality({p \in Documents : Len(p) > n /\ p[n] = x})

CountOf(counts, x) == IF x \in DOMAIN counts THEN counts[x] ELSE 0

PartsAt(n) == {p[n] : p \in {q \in Documents : Len(q) > n}}

(***************************************************************************)
(* C21: the report counts every archived document exactly once in the      *)
(* total, tallies each document under the domain equal to the first part   *)
(* of its path below the archive root and under the stage equal to the     *)
(* second part, and modifies no file.                                      *)
(***************************************************************************)
C21_ReportCounts ==
    Reported =>
        /\ stats.total = Cardinality(Documents)
        /\ \A x \in PartsAt(1) \cup DOMAIN stats.domains :
              CountOf(stats.domains, x) = WithPart(1, x)
        /\ \A x \in PartsAt(2) \cup DOMAIN stats.stages :
              CountOf(stats.stages, x) = WithPart(2, x)
        /\ afiles = snap.afiles /\ adirs = snap.adirs /\ staging = staging0
        /\ indexes = NoIndexes /\ bundle = NoBundle

(***************************************************************************)
(* Vocabulary of the properties about the scan of staging                  *)
(***************************************************************************)
Scanned == cmd = "init" /\ out # <<>>

\* the staged files the scan is after: every .md file under staging, at any
\* depth, and in the directive variant every .txt file as well
CandidateFiles ==
    {p \in Paths :
        /\ staging0[p] # NoFile
        /\ LET n == FilenameOf(p)
           IN  \/ SubSeq(n, Len(n) - 2, Len(n)) = <<".","m","d">>
               \/ variant = "directive" /\ SubSeq(n, Len(n) - 3, Len(n)) = <<".","t","x","t">>}

\* the files whose read failed
Unread == {log[k].dest : k \in {j \in 1..Len(log) : log[j].outcome = "skipped"}}

RowsOf(p) == {k \in 1..Len(manifest) : manifest[k].path = p}

(***************************************************************************)
(* C22: generate_manifest writes exactly one manifest row per candidate    *)
(* file found recursively under staging, none for a file whose read fails  *)
(* (it is reported and the scan goes on), overwrites the manifest, and     *)
(* creates, modifies or deletes no file under staging.                     *)
(***************************************************************************)
C22_OneRowPerCandidate ==
    Scanned =>
        /\ \A p \in CandidateFiles \ Unread : Cardinality(RowsOf(p)) = 1
        /\ \A p \in Unread : RowsOf(p) = {}
        /\ \A k \in 1..Len(manifest) : manifest[k].path \in CandidateFiles \ Unread
        /\ \A k \in 1..Len(manifest) : manifest[k].status = "pending"
        /\ staging = staging0

\* a nested file scanned, one read failed, an older manifest replaced
C22_Witness ==
    /\ Scanned
    /\ Unread # {}
    /\ RowsOf("sub/foo.md") # {}
    /\ Len(manifest) >= 2
    /\ \A k \in 1..Len(manifest) : manifest[k].path # "Foo Bar.md"
    /\ staging0["Foo Bar.md"] = NoFile

(***************************************************************************)
(* Vocabulary of the properties about the functions called on their own    *)
(***************************************************************************)
Returned23 == arg.f = "extract_snippet" /\ result # NoCall

\* the lines of a text after its leading header block: the block goes from
\* a first line "---" to the next line "---"
AfterHeader(text) ==
    IF text # <<>> /\ text[1] = <<"-","-","-">> /\ \E k \in 2..Len(text) : text[k] = <<"-","-","-">>
    THEN SubSeq(text, 1 + (CHOOSE k \in 2..Len(text) :
                              /\ text[k] = <<"-","-","-">>
                              /\ \A j \in 2..(k - 1) : text[j] # <<"-","-","-">>), Len(text))
    ELSE text

Blank(c) == c \in {" ", "\t", "\n"}

\* the tokens of a string: its maximal runs of characters that are not blank
RECURSIVE TokensOf(_, _)
TokensOf(s, word) ==
    IF s = <<>> THEN IF word = <<>> THEN <<>> ELSE <<word>>
    ELSE IF Blank(s[1])
         THEN (IF word = <<>> THEN <<>> ELSE <<word>>) \o TokensOf(Tail(s), <<>>)
         ELSE TokensOf(Tail(s), Append(word, s[1]))

RECURSIVE Spaced(_)
Spaced(ws) ==
    IF ws = <<>> THEN <<>>
    ELSE IF Len(ws) = 1 THEN ws[1] ELSE ws[1] \o <<" ">> \o Spaced(Tail(ws))

RECURSIVE Lines(_)
Lines(text) ==
    IF text = <<>> THEN <<>>
    ELSE IF Len(text) = 1 THEN text[1] ELSE text[1] \o <<"\n">> \o Lines(Tail(text))

Ellipsis == <<".", ".", ".">>

SnippetAsStated(text, n) ==
    LET tokens == TokensOf(Lines(AfterHeader(text)), <<>>)
    IN  Spaced(SubSeq(tokens, 1, IF Len(tokens) < n THEN Len(tokens) ELSE n))
        \o (IF Len(tokens) > n THEN Ellipsis ELSE <<>>)

(***************************************************************************)
(* C23: for every text and every word_count, extract_snippet returns, also *)
(* when the text has no header block or an unterminated one, and its       *)
(* result is the first word_count tokens of the text after the leading     *)
(* header is removed, joined by single spaces, with an ellipsis marker     *)
(* appended exactly when the remaining text had more than word_count       *)
(* tokens.                                                                 *)
(***************************************************************************)
C23_SnippetIsFirstWords ==
    Returned23 =>
        /\ result.f = "returned"
        /\ result.value = SnippetAsStated(arg.text, arg.word_count)

\* content has the word w at some position, whatever the case of its letters
HasWord(content, w) ==
    \E j \in 1..(Len(content) - Len(w) + 1) :
        \A k \in 1..Len(w) : LowerChar(content[j + k - 1]) = w[k]

HasCodeWord(content) ==
    \/ HasWord(content, <<"c","o","d","e">>)
    \/ HasWord(content, <<"f","u","n","c","t","i","o","n">>)
    \/ HasWord(content, <<"d","e","f"," ">>)

HasJournalWord(content) ==
    \/ HasWord(content, <<"j","o","u","r","n","a","l">>)
    \/ HasWord(content, <<"d","i","a","r","y">>)
    \/ HasWord(content, <<"f","e","l","t">>)

(***************************************************************************)
(* C24: suggest_metadata returns stage "formalizedframework" exactly when  *)
(* the content contains "doctrine" in any letter case, "experientialdata"  *)
(* otherwise; domain "tradecraft" with tag "code-snippet" when "code",     *)
(* "function" or "def " occurs, else "forensic-psychology" with tag        *)
(* "reflection" when "journal", "diary" or "felt" occurs, else             *)
(* "social-engineering" with no tag: content with words of both sets gets  *)
(* tradecraft only.                                                        *)
(***************************************************************************)
C24_SuggestPrecedence ==
    arg.f = "suggest_metadata" /\ result # NoCall =>
        LET c == arg.content
            r == result.value
        IN  /\ r.stage = IF HasWord(c, <<"d","o","c","t","r","i","n","e">>)
                         THEN <<"f","o","r","m","a","l","i","z","e","d","f","r","a","m","e","w","o","r","k">>
                         ELSE <<"e","x","p","e","r","i","e","n","t","i","a","l","d","a","t","a">>
            /\ HasCodeWord(c) =>
                  r.domain = <<"t","r","a","d","e","c","r","a","f","t">>
                  /\ r.tags = <<"c","o","d","e","-","s","n","i","p","p","e","t">>
            /\ ~HasCodeWord(c) /\ HasJournalWord(c) =>
                  r.domain = ForensicPsychology /\ r.tags = Reflection
            /\ ~HasCodeWord(c) /\ ~HasJournalWord(c) =>
                  r.domain = SocialEngineering /\ r.tags = <<>>

\* a content with a word of each set
C24_Witness ==
    /\ arg.f = "suggest_metadata"
    /\ result # NoCall
    /\ HasCodeWord(arg.content)
    /\ HasJournalWord(arg.content)
    /\ result.value.domain = Tradecraft

(***************************************************************************)
(* Vocabulary of the properties about what a run keeps                     *)
(***************************************************************************)
\* text ends with the lines of body
EndsWithLines(text, body) ==
    Len(text) >= Len(body) /\ SubSeq(text, Len(text) - Len(body) + 1, Len(text)) = body

\* the document staged at p when the run began is still somewhere
Kept(p) ==
    \/ staging[p] # NoFile /\ EndsWithLines(staging[p], staging0[p])
    \/ \E q \in DOMAIN afiles : EndsWithLines(afiles[q], staging0[p])

\* row k is the last row of its path so far
LastOfPath(k) == \A j \in (k + 1)..Len(log) : manifest[j].path # manifest[k].path

(***************************************************************************)
(* C27: at every point of an organize_archive run, the body of every       *)
(* document that was in staging when the run began is present either in    *)
(* its staged source file or in an archived file; a row whose write fails  *)
(* keeps its source.                                                       *)
(***************************************************************************)
C27_BodyNeverLost ==
    /\ \A p \in Paths : staging0[p] # NoFile => Kept(p)
    /\ \A k \in 1..Len(log) :
          log[k].outcome = "error_write" /\ LastOfPath(k) => staging[manifest[k].path] # NoFile

(***************************************************************************)
(* C29: organize_archive only reads the manifest: no step of a run changes *)
(* a manifest row, its status field included, whether the row is moved,    *)
(* skipped or fails.                                                       *)
(***************************************************************************)
C29_ManifestReadOnly == [][manifest' = manifest]_vars

\* a run that is over, with a row moved and a row that failed or was skipped
C29_Witness ==
    /\ pc = "done"
    /\ \E k \in 1..Len(log) : log[k].outcome = "moved"
    /\ \E k \in 1..Len(log) : log[k].outcome # "moved"
    /\ \A k \in 1..Len(manifest) : manifest[k].status = "pending"

(***************************************************************************)
(* C25: the dashboard never has two commands running at the same time      *)
(* against the same manifest and archive: while a command started from the *)
(* dashboard is still running, a second one is not started.                *)
(***************************************************************************)
C25_OneCommandAtATime ==
    Cardinality({k \in 1..Len(procs) :
                    /\ procs[k].command \in ToolkitArgs
                    /\ procs[k].at = "running"}) <= 1

(***************************************************************************)
(* Vocabulary of the properties about the written header                   *)
(***************************************************************************)
\* the row that wrote the archived document p last
WriterOf(p) ==
    LET ks == {k \in 1..Len(log) : log[k].outcome = "moved" /\ log[k].dest = p}
    IN  manifest[log[CHOOSE k \in ks : \A j \in ks : j <= k].row]

Written == {log[k].dest : k \in {j \in 1..Len(log) : log[j].outcome = "moved"}}

NoValue == <<"None">>

(***************************************************************************)
(* C26: for every document written by organize_archive, the header parse   *)
(* of the index builder (split at the "---" delimiters, then each line at  *)
(* its first colon) recovers the normalized domain the Organizer wrote as  *)
(* patterndomain and the stage label it wrote as maturationstage, for      *)
(* every domain and stage string a manifest row can carry.                 *)
(***************************************************************************)
C26_HeaderRoundTrip ==
    \A p \in Written :
        /\ MetaGet(ParseMeta(afiles[p]), <<"patterndomain">>, NoValue)
              = DomainOf(variant, WriterOf(p))
        /\ MetaGet(ParseMeta(afiles[p]), <<"maturationstage">>, NoValue)
              = RawStage(variant, WriterOf(p))

(***************************************************************************)
(* C28: every document written by organize_archive passes the export       *)
(* verifier: after bundle_to_json over the archive, verify_bundle reports  *)
(* no missing patterndomain, no missing maturationstage and no patterntags *)
(* value that is not a list, for every classified row, rows with an empty  *)
(* stage label, a whitespace-only domain or a tag field starting with '['  *)
(* included.                                                               *)
(***************************************************************************)
C28_VerifierPasses == result.f = "verify_bundle" => issues = <<>>

(***************************************************************************)
(* Vocabulary of the properties about indexes                              *)
(***************************************************************************)
\* the command that ran last printed e
LastIs(e) == out # <<>> /\ out[Len(out)] = e

\* the destination of a markdown link: from "](" to the parenthesis that
\* closes it, parentheses inside the destination being balanced
Count(s, c, from, to) == Cardinality({j \in from..to : s[j] = c})

RECURSIVE NamedLinksIn(_)
NamedLinksIn(s) ==
    LET a == Find(s, <<"[">>, 1)
        b == IF a = 0 THEN 0 ELSE Find(s, <<"]", "(">>, a + 1)
        closing == IF b = 0 THEN {}
                   ELSE {j \in (b + 2)..Len(s) :
                            /\ s[j] = ")"
                            /\ Count(s, "(", b + 2, j - 1) = Count(s, ")", b + 2, j - 1)}
    IN  IF closing = {} THEN <<>>
        ELSE <<SubSeq(s, b + 2, Kth(closing, 1) - 1)>>
             \o NamedLinksIn(SubSeq(s, Kth(closing, 1) + 1, Len(s)))

\* the destinations of all links of an index file
NamedLinks(n) ==
    LET all == Concat([k \in 1..Len(indexes.files[n]) |-> NamedLinksIn(indexes.files[n][k])])
    IN  {all[k] : k \in 1..Len(all)}

\* a link destination that leads nowhere
Dangling(l) == ~PathExists(variant, adirs, afiles, indexes, ResolveLink(l))

\* the links of index file n that the validation reported as broken
ReportedBroken(n) ==
    {issues[k].link : k \in {j \in 1..Len(issues) : issues[j].kind = "broken" /\ issues[j].file = n}}

\* every link of every index file leads to something that exists
AllLinksResolve == \A n \in MdNames(indexes.files) : \A l \in NamedLinks(n) : ~Dangling(l)

\* every archived document is the target of a link of some index file
AllArchivedReferenced ==
    \A p \in MdFiles(afiles) :
        \E n \in MdNames(indexes.files) :
            \E l \in NamedLinks(n) : ResolveLink(l) = <<ArchiveName(variant)>> \o p

(***************************************************************************)
(* C18: validate_archive reports a link of an index file as broken exactly *)
(* when the path the link names, resolved against the index directory,     *)
(* does not exist, and reports no other link as broken.                    *)
(***************************************************************************)
C18_BrokenLinksExact ==
    LastIs("validated") =>
        \A n \in MdNames(indexes.files) :
            ReportedBroken(n) = {l \in NamedLinks(n) : Dangling(l)}

(***************************************************************************)
(* C19: after the indexes have been regenerated, every document read, and  *)
(* nothing has changed since, every archived document is referenced by an  *)
(* index file and every link of every index file resolves; a validation    *)
(* run then reports no issue at all.  Also after an archive change         *)
(* between two generations.                                                *)
(***************************************************************************)
C19_ConsistentAfterRegeneration ==
    /\ LastIs("indexed") => (AllLinksResolve /\ AllArchivedReferenced)
    /\ (Len(out) >= 2 /\ LastIs("validated") /\ out[Len(out) - 1] = "indexed")
           => issues = <<>>

(***************************************************************************)
(* Vocabulary of the properties about the three views                      *)
(***************************************************************************)
Views ==
    { <<IndexMaturation, "maturationstage">>,
      <<IndexDomains, "patterndomain">>,
      <<IndexValidation, "validationstatus">> }

\* what the header of the archived document p holds for the key, as the
\* organizer wrote it; the stray document has no header
HeaderValue(p, key) ==
    IF p = <<StrayMd>> THEN Uncategorized
    ELSE LET r == CHOOSE x \in IndexRows : DestPath("directive", x) = p
         IN  IF key = "patterndomain" THEN DomainOf("directive", r)
             ELSE IF key = "maturationstage" THEN RawStage("directive", r)
             ELSE <<"singleobservation">>

\* the heading line of the entry of document p
EntryOf(p) ==
    <<"### ", "[">> \o PathStem(p[Len(p)]) \o <<"]", "(", "..", "/">>
        \o PosixPath("directive", p) \o <<")">>

IsSection(line) == line # <<>> /\ line[1] = "## "

\* the name of the section that line k of the file lies in
SectionAt(lines, k) ==
    LET hs == {j \in 1..(k - 1) : IsSection(lines[j])}
    IN  IF hs = {} THEN <<>> ELSE Tail(lines[Kth(hs, Cardinality(hs))])

\* document p has exactly one entry in the file, in the section of its value
OnceInSection(lines, p, key) ==
    LET at == {k \in 1..Len(lines) : lines[k] = EntryOf(p)}
    IN  /\ Cardinality(at) = 1
        /\ SectionAt(lines, Kth(at, 1)) = HeaderValue(p, key)

\* the sections of the file come in ascending order of their names
SectionsAscending(lines) ==
    LET hs == {j \in 1..Len(lines) : IsSection(lines[j])}
    IN  \A j, k \in hs : j < k => StrLess(Tail(lines[j]), Tail(lines[k]))

\* the documents the last index generation reported as skipped
Skipped == {log[k].dest : k \in 1..Len(log)}

====
